---- MODULE Spec2Model ----
(***************************************************************************)
(* Model of the context-management core of the sidebar extension:          *)
(*   ContextManager (the pin store and the assembly of the context),       *)
(*   TabContext.readContent with its content strategies, ChatHistory and   *)
(*   the chat request orchestration of BackgroundController.               *)
(*                                                                         *)
(* JavaScript is single-threaded: code between two suspension points runs  *)
(* atomically.  Each action below is one such run: from a call or from the *)
(* callback of a host API (chrome.storage, chrome.tabs, fetch) up to the   *)
(* next await of a host API.  An await of an already-settled promise only  *)
(* yields to the microtask queue, which no host callback can interleave,   *)
(* so it does not end an action.                                           *)
(*                                                                         *)
(* chrome.storage requests are served in the order they are issued, so a   *)
(* set takes effect on the persisted record when it is issued and a get    *)
(* reads the record when it is issued; the callbacks arrive later.         *)
(***************************************************************************)
EXTENDS Integers, Sequences, FiniteSets, TLC

\* ------------------------------------------------------------------ bounds
NumTabs == 7        \* tab ids the host hands out: 1..NumTabs
MaxCallers == 2     \* clients calling the pin store concurrently (SpecRace)
MaxClosed == 2      \* tabs the host closes in one run (SpecLoad)
MaxCalls == 3
MaxMeta == 3        \* pinned tabs whose metadata changes (SpecMeta)
MaxRead == 2        \* pinned tabs one getAllContent() reads (SpecContent)
MaxScripts == 2     \* script elements of a Google Docs page (SpecDocs)
MaxObjects == 3     \* message objects made in one run (SpecCopy)
MaxHistory == 3     \* messages of the history sent to the service (SpecWire)
MaxContext == 2     \* context parts sent to the service (SpecWire)

\* ------------------------------------------------------ program constants
MAX_PINNED_TABS == 6
MAX_CONTEXT_LENGTH == 250000

RestrictedURLs == {"chrome://", "about:", "chrome-extension://", "file://"}

TabIds == 1..NumTabs
Callers == 1..MaxCallers

\* ---------------------------------------------------------------- values
\* A url is the prefix it starts with and the rest; url.startsWith(p) is
\* url.prefix = p.  The empty string is EmptyUrl.
Url(prefix, rest) == [prefix |-> prefix, rest |-> rest]
EmptyUrl == Url("", 0)

\* What the host reports for a tab: tabs 1 and 2 show the same page.
HostUrl(id) == Url("https://", IF id <= 2 THEN 0 ELSE id)
HostTitle(id) == IF id % 3 = 0 THEN "" ELSE "Page"

\* The urls a caller may hand to addTab for tab id: the tab's own, and for
\* tabs 1 and 2 also the empty url and internal, local-file and extension pages.
InputUrls(id) ==
  {HostUrl(id)} \cup
  (IF id = 1 THEN {EmptyUrl, Url("chrome://", 0), Url("about:", 0)}
   ELSE IF id = 2 THEN {Url("chrome-extension://", 0), Url("file://", 0)}
   ELSE {})
\* handlePinTab: tab.title || 'Untitled'
InputTitle(id) == IF HostTitle(id) = "" THEN "Untitled" ELSE HostTitle(id)

TabContext(tabId, url, title) == [tabId |-> tabId, url |-> url, title |-> title]

VARIABLES
  pinnedTabs,   \* ContextManager.pinnedTabs: sequence of TabContext
  pinStorage,   \* the persisted record StorageKeys.PINNED_CONTEXTS: sequence of TabInfo
  call,         \* per caller: the pin-store call it made last, [op, ret, writes]
  ld,           \* per caller: the locals of its load() in progress
  openTabs,     \* the tab ids that exist on the host
  legacy,       \* the persisted pinned list the process found when it started
  fuel,         \* addTab/removeTab calls still to be made (SpecLegacy)
  messages,     \* ChatHistory.messages: sequence of ChatMessage
  chatStorage,  \* the persisted record StorageKeys.CHAT_HISTORY
  apiKey,       \* whether an API key is stored
  abortController, \* BackgroundController.abortController: 0 (null), or the
                \* controller made by the chat request of that number
  aborted,      \* the controllers whose signal is aborted
  req,          \* per request: the position and locals of its handleMessage
  rc,           \* the readContent() in progress: its position and locals
  ga,           \* the getAllContent()/getActiveTabContent() in progress
  doc,          \* a run of the Google Docs page script: the page and its result
  wt,           \* a waitForTabComplete() call: its promise, listener and timer
  tabStatus,    \* per tab: what chrome.tabs reports, "loading", "complete" or
                \* "closed"
  ev,           \* the tab events of the host and their listeners
  heap,         \* the message objects of ChatHistory and the arrays holding them
  wire          \* a generateContent() call: its arguments and the request it sends

pinVars == <<pinnedTabs, pinStorage, call, ld>>
hostVars == <<openTabs, legacy>>
chatVars == <<messages, chatStorage, apiKey, abortController, aborted, req>>
readVars == <<rc, ga>>
svcVars == <<doc, wt, tabStatus, ev, heap, wire>>
vars == <<pinnedTabs, pinStorage, call, ld, openTabs, legacy, fuel,
          messages, chatStorage, apiKey, abortController, aborted, req, rc, ga,
          doc, wt, tabStatus, ev, heap, wire>>

\* -------------------------------------------------------- pure functions
\* (mutant: the denylist of the earlier version, without local files)
isRestrictedURL_noFile(url) == url.prefix \in {"chrome://", "about:", "chrome-extension://"}

isRestrictedURL(url) == \E prefix \in RestrictedURLs : url.prefix = prefix

isTabPinned(tabs, tabId) == \E i \in 1..Len(tabs) : tabs[i].tabId = tabId

\* ContextManager.save: the TabInfo list written to storage.
save(tabs) == [i \in 1..Len(tabs) |->
                 [id |-> tabs[i].tabId, title |-> tabs[i].title, url |-> tabs[i].url]]

\* (mutant: the idempotence check is missing)
addTab_noDedupe(tabs, tab) ==
  IF tab.url = EmptyUrl
    THEN [tabs |-> tabs, result |-> "invalid", save |-> FALSE]
  ELSE IF \E prefix \in RestrictedURLs : tab.url.prefix = prefix
    THEN [tabs |-> tabs, result |-> "restricted", save |-> FALSE]
  ELSE IF Len(tabs) >= MAX_PINNED_TABS
    THEN [tabs |-> tabs, result |-> "limit", save |-> FALSE]
  ELSE [tabs |-> Append(tabs, tab), result |-> "ok", save |-> TRUE]

\* (mutant: the limit check is off by one, > for >=)
addTab_offByOne(tabs, tab) ==
  IF tab.url = EmptyUrl
    THEN [tabs |-> tabs, result |-> "invalid", save |-> FALSE]
  ELSE IF \E prefix \in RestrictedURLs : tab.url.prefix = prefix
    THEN [tabs |-> tabs, result |-> "restricted", save |-> FALSE]
  ELSE IF \E i \in 1..Len(tabs) : tabs[i].tabId = tab.tabId
    THEN [tabs |-> tabs, result |-> "ok", save |-> FALSE]
  ELSE IF Len(tabs) > MAX_PINNED_TABS
    THEN [tabs |-> tabs, result |-> "limit", save |-> FALSE]
  ELSE [tabs |-> Append(tabs, tab), result |-> "ok", save |-> TRUE]

\* (mutant: the limit is checked before the idempotence check)
addTab_limitFirst(tabs, tab) ==
  IF tab.url = EmptyUrl
    THEN [tabs |-> tabs, result |-> "invalid", save |-> FALSE]
  ELSE IF \E prefix \in RestrictedURLs : tab.url.prefix = prefix
    THEN [tabs |-> tabs, result |-> "restricted", save |-> FALSE]
  ELSE IF Len(tabs) >= MAX_PINNED_TABS
    THEN [tabs |-> tabs, result |-> "limit", save |-> FALSE]
  ELSE IF \E i \in 1..Len(tabs) : tabs[i].tabId = tab.tabId
    THEN [tabs |-> tabs, result |-> "ok", save |-> FALSE]
  ELSE [tabs |-> Append(tabs, tab), result |-> "ok", save |-> TRUE]

\* (mutant: the limit check is missing)
addTab_noLimit(tabs, tab) ==
  IF tab.url = EmptyUrl
    THEN [tabs |-> tabs, result |-> "invalid", save |-> FALSE]
  ELSE IF \E prefix \in RestrictedURLs : tab.url.prefix = prefix
    THEN [tabs |-> tabs, result |-> "restricted", save |-> FALSE]
  ELSE IF \E i \in 1..Len(tabs) : tabs[i].tabId = tab.tabId
    THEN [tabs |-> tabs, result |-> "ok", save |-> FALSE]
  ELSE [tabs |-> Append(tabs, tab), result |-> "ok", save |-> TRUE]

\* ContextManager.addTab up to its await: the new list, how the call ends
\* ("ok", or the error thrown) and whether save() is called.
addTab(tabs, tab) ==
  IF tab.url = EmptyUrl
    THEN [tabs |-> tabs, result |-> "invalid", save |-> FALSE]
  ELSE IF isRestrictedURL(tab.url)
    THEN [tabs |-> tabs, result |-> "restricted", save |-> FALSE]
  ELSE IF isTabPinned(tabs, tab.tabId)
    THEN [tabs |-> tabs, result |-> "ok", save |-> FALSE]
  ELSE IF Len(tabs) >= MAX_PINNED_TABS
    THEN [tabs |-> tabs, result |-> "limit", save |-> FALSE]
  ELSE [tabs |-> Append(tabs, tab), result |-> "ok", save |-> TRUE]

\* (mutant: entries are matched by url, as the earlier url-keyed store did)
removeTab_byUrl(tabs, tabId) ==
  LET urls == {tabs[i].url : i \in {j \in 1..Len(tabs) : tabs[j].tabId = tabId}}
      kept == SelectSeq(tabs, LAMBDA t : t.url \notin urls)
  IN  [tabs |-> kept, save |-> Len(kept) < Len(tabs)]

\* ContextManager.removeTab up to its await.
removeTab(tabs, tabId) ==
  LET kept == SelectSeq(tabs, LAMBDA t : t.tabId # tabId)
  IN  [tabs |-> kept, save |-> Len(kept) < Len(tabs)]

\* (mutant: every entry of the list gets the new url and title)
updateTabMetadata_all(tabs, tabId, url, title) ==
  IF \E i \in 1..Len(tabs) : tabs[i].tabId = tabId
    THEN [tabs |-> [i \in 1..Len(tabs) |-> TabContext(tabs[i].tabId, url, title)],
          save |-> TRUE]
    ELSE [tabs |-> tabs, save |-> FALSE]

\* ContextManager.updateTabMetadata up to its await: the first entry with
\* the tabId gets the url and the title, and save() is called.
updateTabMetadata(tabs, tabId, url, title) ==
  LET found == {i \in 1..Len(tabs) : tabs[i].tabId = tabId} IN
    IF found = {}
      THEN [tabs |-> tabs, save |-> FALSE]
      ELSE LET k == CHOOSE i \in found : \A j \in found : i <= j
           IN  [tabs |-> [tabs EXCEPT ![k] = TabContext(tabs[k].tabId, url, title)],
                save |-> TRUE]

\* ContextManager.load, the entry rehydrated from stored entry s when the
\* host still has the tab: url and title follow the host, falling back to
\* the stored ones (tab.url || s.url, tab.title || s.title || 'Untitled').
Rehydrate(s) ==
  TabContext(s.id,
             IF HostUrl(s.id) # EmptyUrl THEN HostUrl(s.id) ELSE s.url,
             IF HostTitle(s.id) # "" THEN HostTitle(s.id)
             ELSE IF s.title # "" THEN s.title ELSE "Untitled")

\* ---------------------------------------------------------------- actions
NoCall == [op |-> "none", ret |-> "none", writes |-> 0]
NoLoad == [pc |-> "idle", stored |-> <<>>, idx |-> 0, acc |-> <<>>]

\* A caller that is not awaiting a call of its own.
Ready(c) == call[c].ret # "pending"

\* addTab(tab), from the call to `await this.save()` (or to the throw/return).
AddTabCall(c, tab) ==
  /\ Ready(c)
  /\ LET r == addTab(pinnedTabs, tab) IN
       /\ pinnedTabs' = r.tabs
       /\ pinStorage' = IF r.save THEN save(r.tabs) ELSE pinStorage
       /\ call' = [call EXCEPT ![c] =
                     [op |-> "addTab",
                      ret |-> IF r.save THEN "pending" ELSE r.result,
                      writes |-> IF r.save THEN 1 ELSE 0]]
  /\ UNCHANGED <<ld, hostVars>>

\* removeTab(tabId), from the call to `await this.save()` (or to the return).
RemoveTabCall(c, tabId) ==
  /\ Ready(c)
  /\ LET r == removeTab(pinnedTabs, tabId) IN
       /\ pinnedTabs' = r.tabs
       /\ pinStorage' = IF r.save THEN save(r.tabs) ELSE pinStorage
       /\ call' = [call EXCEPT ![c] =
                     [op |-> "removeTab",
                      ret |-> IF r.save THEN "pending" ELSE "ok",
                      writes |-> IF r.save THEN 1 ELSE 0]]
  /\ UNCHANGED <<ld, hostVars>>

\* updateTabMetadata(tabId, url, title), from the call to `await this.save()`
\* (or to the return).
UpdateTabMetadataCall(c, tabId, url, title) ==
  /\ Ready(c)
  /\ LET r == updateTabMetadata(pinnedTabs, tabId, url, title) IN
       /\ pinnedTabs' = r.tabs
       /\ pinStorage' = IF r.save THEN save(r.tabs) ELSE pinStorage
       /\ call' = [call EXCEPT ![c] =
                     [op |-> "updateTabMetadata",
                      ret |-> IF r.save THEN "pending" ELSE "ok",
                      writes |-> IF r.save THEN 1 ELSE 0]]
  /\ UNCHANGED <<ld, hostVars>>

\* The storage callback of save(): the awaiting addTab/removeTab/load returns.
SaveDone(c) ==
  /\ call[c].ret = "pending"
  /\ call[c].op \in {"addTab", "removeTab", "updateTabMetadata"} \/ ld[c].pc = "save"
  /\ call' = [call EXCEPT ![c].ret = "ok"]
  /\ ld' = [ld EXCEPT ![c] = NoLoad]
  /\ UNCHANGED <<pinnedTabs, pinStorage, hostVars>>

\* load(), the call: the storage get is issued and reads the persisted list.
\* (The persisted record is absent only while nothing was ever pinned, and
\* the in-memory list is then empty as well, so an absent record and an empty
\* list load alike; entries are TabInfo and always carry an id.)
LoadCall(c) ==
  /\ Ready(c)
  /\ call' = [call EXCEPT ![c] = [op |-> "load", ret |-> "pending", writes |-> 0]]
  /\ ld' = [ld EXCEPT ![c] = [pc |-> "get", stored |-> pinStorage, idx |-> 0, acc |-> <<>>]]
  /\ UNCHANGED <<pinnedTabs, pinStorage, hostVars>>

\* (mutant: the rehydrated list is saved whether or not entries were pruned)
LoadCommit_alwaysSave(c, rehydratedTabs) ==
  /\ pinnedTabs' = rehydratedTabs
  /\ pinStorage' = save(rehydratedTabs)
  /\ call' = [call EXCEPT ![c].writes = 1]
  /\ ld' = [ld EXCEPT ![c].pc = "save"]

\* (mutant: the rehydrated list is added to the pinned list)
LoadCommit_merge(c, rehydratedTabs) ==
  /\ pinnedTabs' = pinnedTabs \o rehydratedTabs
  /\ IF Len(rehydratedTabs) # Len(ld[c].stored)
       THEN /\ pinStorage' = save(pinnedTabs')
            /\ call' = [call EXCEPT ![c].writes = 1]
            /\ ld' = [ld EXCEPT ![c].pc = "save"]
       ELSE /\ pinStorage' = pinStorage
            /\ call' = [call EXCEPT ![c].ret = "ok"]
            /\ ld' = [ld EXCEPT ![c] = NoLoad]

\* load(), the end of the loop: the rehydrated list replaces the pinned list
\* and is saved when entries were pruned.
LoadCommit(c, rehydratedTabs) ==
  /\ pinnedTabs' = rehydratedTabs
  /\ IF Len(rehydratedTabs) # Len(ld[c].stored)
       THEN /\ pinStorage' = save(rehydratedTabs)
            /\ call' = [call EXCEPT ![c].writes = 1]
            /\ ld' = [ld EXCEPT ![c].pc = "save"]
       ELSE /\ pinStorage' = pinStorage
            /\ call' = [call EXCEPT ![c].ret = "ok"]
            /\ ld' = [ld EXCEPT ![c] = NoLoad]

\* load(), the callback of the storage get: the loop starts and awaits
\* getTab for the first entry, or ends at once on an empty list.
LoadGot(c) ==
  /\ ld[c].pc = "get"
  /\ IF Len(ld[c].stored) = 0
       THEN LoadCommit(c, <<>>)
       ELSE /\ ld' = [ld EXCEPT ![c].pc = "tab", ![c].idx = 1]
            /\ UNCHANGED <<pinnedTabs, pinStorage, call>>
  /\ UNCHANGED hostVars

\* load(), the answer of getTab for entry idx: the entry is kept when the tab
\* exists; the loop awaits the next getTab or ends.
LoadTab(c) ==
  /\ ld[c].pc = "tab"
  /\ LET s == ld[c].stored[ld[c].idx]
         rehydratedTabs == IF s.id \in openTabs
                             THEN Append(ld[c].acc, Rehydrate(s))
                             ELSE ld[c].acc
     IN IF ld[c].idx < Len(ld[c].stored)
          THEN /\ ld' = [ld EXCEPT ![c].idx = @ + 1, ![c].acc = rehydratedTabs]
               /\ UNCHANGED <<pinnedTabs, pinStorage, call>>
          ELSE LoadCommit(c, rehydratedTabs)
  /\ UNCHANGED hostVars

\* The host closes a tab (between two calls of the pin store).
HostCloseTab(id) ==
  /\ id \in openTabs
  /\ Cardinality(TabIds \ openTabs) < MaxClosed
  /\ \A c \in Callers : ld[c].pc = "idle"
  /\ openTabs' = openTabs \ {id}
  /\ UNCHANGED <<pinVars, legacy>>

\* ------------------------------------------------------- content values
\* A string a page script returns: which page text it is, its length, and
\* ink, the position of its first non-whitespace character (0: it has none,
\* so s.trim().length === 0).  NoString stands for null and undefined.
String(id, len, ink) == [id |-> id, len |-> len, ink |-> ink]
NoString == String(0, 0, 0)

\* A text is the concatenation of its pieces.  A piece is a literal, a url,
\* or s.substring(0, n) of a page string s: its first upto characters.
Lit(s) == [lit |-> s, url |-> EmptyUrl, of |-> NoString, upto |-> 0]
UrlText(u) == [lit |-> "", url |-> u, of |-> NoString, upto |-> 0]
Substring(s, n) ==
  [lit |-> "", url |-> EmptyUrl, of |-> s, upto |-> IF s.len < n THEN s.len ELSE n]

\* ContentPart
Text(text) == [type |-> "text", text |-> text, mimeType |-> "", fileUri |-> EmptyUrl]
FileData(url) ==
  [type |-> "file_data", text |-> <<>>, mimeType |-> "video/mp4", fileUri |-> url]
NoPart == [type |-> "none", text |-> <<>>, mimeType |-> "", fileUri |-> EmptyUrl]

\* The characters of a text, the rest of a url counted as one character.
UrlLength(u) == IF u = EmptyUrl THEN 0 ELSE Len(u.prefix) + 1
RECURSIVE Length(_)
Length(text) ==
  IF text = <<>> THEN 0
  ELSE Len(Head(text).lit) + UrlLength(Head(text).url) + Head(text).upto
       + Length(Tail(text))

CONTEXT_MESSAGES ==
  [LOADING_WARNING |-> "(Page is still loading...)",
   NO_CONTENT_WARNING |-> "(No text content found on this page)",
   RESTRICTED_URL |-> "(Content not accessible for restricted URL)",
   EXTENSION_POLICY_ERROR |->
     "(Content inaccessible due to your enterprise extension policy)",
   TAB_NOT_FOUND |-> "(Tab not found or accessible)",
   TAB_DISCARDED |->
     "(Tab is suspended to save memory. Click it to reload content)",
   ERROR_PREFIX |-> "(Could not extract content from"]

\* Urls by their rest: 101 is www.youtube.com/watch?v=..., 102 is
\* docs.google.com/document/..., 103 is
\* www.youtube.com/watch?v=...&from=docs.google.com/document (the regular
\* expression of the Google Docs strategy is tested on the whole url); every
\* other rest matches neither.  new URL() finds the host name after any
\* scheme that ends in //.
YouTubeStrategy_canHandle(url) == url.rest \in {101, 103} /\ url.prefix # "about:"
GoogleDocsStrategy_canHandle(url) == url.rest \in {102, 103}
DefaultWebPageStrategy_canHandle(url) == TRUE
canHandle(strategy, url) ==
  IF strategy = "YouTube" THEN YouTubeStrategy_canHandle(url)
  ELSE IF strategy = "GoogleDocs" THEN GoogleDocsStrategy_canHandle(url)
  ELSE DefaultWebPageStrategy_canHandle(url)

\* this.strategies of a TabContext
strategies_docsFirst == <<"GoogleDocs", "YouTube", "DefaultWebPage">>
strategies == <<"YouTube", "GoogleDocs", "DefaultWebPage">>

\* this.strategies.find((s) => s.canHandle(this.url)); "none" is undefined.
FindStrategy(url) ==
  LET hits == {i \in 1..Len(strategies) : canHandle(strategies[i], url)}
  IN IF hits = {} THEN "none"
     ELSE strategies[CHOOSE i \in hits : \A j \in hits : i <= j]

\* What the tab service answers.  getTab: no tab, a tab, or an error.
TabAnswer(throws, found, discarded, status) ==
  [throws |-> throws, message |-> IF throws THEN "No tab with id" ELSE "",
   found |-> found, discarded |-> discarded, status |-> status]
TabAnswers ==
  {TabAnswer(TRUE, FALSE, FALSE, "complete"),
   TabAnswer(FALSE, FALSE, FALSE, "complete")} \cup
  {TabAnswer(FALSE, TRUE, d, s) : d \in BOOLEAN, s \in {"loading", "complete"}}
\* waitForTabComplete: the tab completed, the timeout expired, or another error.
WaitAnswers == {"complete", "TimeoutError", "Error"}
WaitErrorMessage == "Tab was closed"
\* executeScript: a result or an error.  For the default strategy the result
\* is content (NoString: null); for the Google Docs strategy it is null
\* (isNull) or {content, debug}.
PolicyMessage == "This page cannot be scripted due to an ExtensionsSettings policy."
ScriptAnswer(throws, message, isNull, content, debug) ==
  [throws |-> throws, message |-> message, isNull |-> isNull,
   content |-> content, debug |-> debug]
ScriptStrings ==
  {String(1, 0, 0), String(2, 3, 0), String(3, 5, 1), String(4, 5, 3),
   String(5, MAX_CONTEXT_LENGTH - 1, 1), String(6, MAX_CONTEXT_LENGTH, 1),
   String(7, MAX_CONTEXT_LENGTH + 1, 1),
   String(8, MAX_CONTEXT_LENGTH + 5, MAX_CONTEXT_LENGTH + 2),
   String(9, MAX_CONTEXT_LENGTH + 1, 0)}
ScriptErrors == {"", "Cannot access contents of the page", PolicyMessage}
ScriptAnswers(strategy) ==
  {ScriptAnswer(TRUE, m, FALSE, NoString, "") : m \in ScriptErrors} \cup
  {ScriptAnswer(FALSE, "", TRUE, NoString, "")} \cup
  IF strategy = "GoogleDocs"
    THEN {ScriptAnswer(FALSE, "", FALSE, s, d) :
            s \in ScriptStrings \cup {NoString},
            d \in {"", "Scripts found: 0"}}
    ELSE {ScriptAnswer(FALSE, "", FALSE, s, "") : s \in ScriptStrings}

\* A readContent() run.  calls is the tab-service calls it has made,
\* timeoutMs the timeout it handed to waitForTabComplete (0: no wait made),
\* waited how that wait ended.
NoRead == [tabId |-> 0, url |-> EmptyUrl, pc |-> "idle", strategy |-> "none",
           warningPrefix |-> "", calls |-> <<>>, timeoutMs |-> 0,
           waited |-> "none", part |-> NoPart]
\* A getAllContent()/getActiveTabContent() run: the array it iterates, the
\* index of the entry being read, the foreground tab the host answered, the
\* fragments gathered, and the readContent() runs that have returned to it.
NoTab == TabContext(0, EmptyUrl, "")
NoGet == [op |-> "none", pc |-> "idle", tabs |-> <<>>, idx |-> 0,
          active |-> NoTab, parts |-> <<>>, reads |-> <<>>]

ReadIdle ==
  /\ rc = NoRead
  /\ ga = NoGet

\* ------------------------------------------------------ content resolution
Returned(r, part) == [r EXCEPT !.pc = "done", !.part = part]

ErrorText(url, errorMessage) ==
  Text(<<Lit(CONTEXT_MESSAGES.ERROR_PREFIX), Lit(" "), UrlText(url), Lit(": "),
         Lit(errorMessage), Lit(")")>>)

\* An error leaves strategy.getContent: the catch of readContent.
readContentCatch_rethrow(r, errorMessage) == [r EXCEPT !.pc = "thrown"]
readContentCatch(r, errorMessage) == Returned(r, ErrorText(r.url, errorMessage))

\* readContent() up to its first await of the tab service.
readContent_noRestrictedCheck(tabId, url) ==
  LET r == [NoRead EXCEPT !.tabId = tabId, !.url = url,
                          !.strategy = FindStrategy(url)]
  IN IF r.strategy = "YouTube" THEN Returned(r, FileData(url))
     ELSE [r EXCEPT !.pc = "getTab", !.calls = <<"getTab">>]
readContent_videoLookup(tabId, url) ==
  LET r == [NoRead EXCEPT !.tabId = tabId, !.url = url]
  IN IF isRestrictedURL(url)
       THEN Returned(r, Text(<<Lit(CONTEXT_MESSAGES.RESTRICTED_URL), Lit(": "),
                               UrlText(url)>>))
     ELSE [r EXCEPT !.strategy = FindStrategy(url), !.pc = "getTab",
                    !.calls = <<"getTab">>]
readContent(tabId, url) ==
  LET r == [NoRead EXCEPT !.tabId = tabId, !.url = url]
  IN IF isRestrictedURL(url)
       THEN Returned(r, Text(<<Lit(CONTEXT_MESSAGES.RESTRICTED_URL), Lit(": "),
                               UrlText(url)>>))
     ELSE IF FindStrategy(url) = "none"
       THEN Returned(r, Text(<<Lit(CONTEXT_MESSAGES.ERROR_PREFIX),
                               Lit(" No strategy found for "), UrlText(url)>>))
     ELSE IF FindStrategy(url) = "YouTube"
       THEN Returned([r EXCEPT !.strategy = "YouTube"], FileData(url))
     ELSE [r EXCEPT !.strategy = FindStrategy(url), !.pc = "getTab",
                    !.calls = <<"getTab">>]

\* getContent of GoogleDocsStrategy and DefaultWebPageStrategy, from the
\* answer of getTab to the next await.
getTabAnswered_noDiscardCheck(r, a) ==
  IF a.throws THEN readContentCatch(r, a.message)
  ELSE IF ~a.found
    THEN Returned(r, Text(<<Lit(CONTEXT_MESSAGES.TAB_NOT_FOUND), Lit(": "),
                            UrlText(r.url)>>))
  ELSE IF a.status = "loading"
    THEN [r EXCEPT !.pc = "wait", !.calls = Append(@, "waitForTabComplete"),
                   !.timeoutMs = 2000]
  ELSE [r EXCEPT !.pc = "exec", !.calls = Append(@, "executeScript")]
getTabAnswered(r, a) ==
  IF a.throws THEN readContentCatch(r, a.message)
  ELSE IF ~a.found
    THEN Returned(r, Text(<<Lit(CONTEXT_MESSAGES.TAB_NOT_FOUND), Lit(": "),
                            UrlText(r.url)>>))
  ELSE IF a.discarded
    THEN Returned(r, Text(<<Lit(CONTEXT_MESSAGES.TAB_DISCARDED), Lit(": "),
                            UrlText(r.url)>>))
  ELSE IF a.status = "loading"
    THEN [r EXCEPT !.pc = "wait", !.calls = Append(@, "waitForTabComplete"),
                   !.timeoutMs = 2000]
  ELSE [r EXCEPT !.pc = "exec", !.calls = Append(@, "executeScript")]

\* ... from the answer of waitForTabComplete(id, 2000) to the next await.
waitAnswered(r, a) ==
  IF a = "complete"
    THEN [r EXCEPT !.pc = "exec", !.calls = Append(@, "executeScript"),
                   !.waited = a]
  ELSE IF a = "TimeoutError"
    THEN [r EXCEPT !.pc = "exec", !.calls = Append(@, "executeScript"),
                   !.waited = a,
                   !.warningPrefix = CONTEXT_MESSAGES.LOADING_WARNING \o " "]
  ELSE readContentCatch([r EXCEPT !.waited = a], WaitErrorMessage)

\* errorMessage.includes('ExtensionsSettings policy')
IsPolicyError(errorMessage) == errorMessage = PolicyMessage

\* !result || result.trim().length === 0 (default strategy) and
\* !result || !result.content || result.content.trim().length === 0
IsBlank_noTrim(a) == a.isNull \/ a.content.len = 0
IsBlank(a) == a.isNull \/ a.content.ink = 0

\* ... from the answer of executeScript to the return.
Truncated_offByOne(content) == Substring(content, MAX_CONTEXT_LENGTH + 1)
Truncated(content) == Substring(content, MAX_CONTEXT_LENGTH)
scriptAnswered(r, a) ==
  IF a.throws
    THEN IF IsPolicyError(a.message)
           THEN Returned(r, Text(<<Lit(IF r.strategy = "GoogleDocs"
                                         THEN CONTEXT_MESSAGES.EXTENSION_POLICY_ERROR
                                         ELSE CONTEXT_MESSAGES.RESTRICTED_URL)>>))
           ELSE Returned(r, ErrorText(r.url, a.message))
  ELSE IF IsBlank(a)
    THEN IF r.strategy = "GoogleDocs"
           THEN Returned(r, Text(<<Lit(CONTEXT_MESSAGES.NO_CONTENT_WARNING),
                                   IF ~a.isNull /\ a.debug # ""
                                     THEN Lit(" (Debug: " \o a.debug \o ")")
                                     ELSE Lit(" (No content found)")>>))
           ELSE Returned(r, Text(<<Lit(CONTEXT_MESSAGES.NO_CONTENT_WARNING)>>))
  ELSE IF r.warningPrefix # ""
    THEN Returned(r, Text(<<Lit(r.warningPrefix), Truncated(a.content)>>))
  ELSE Returned(r, Text(<<Truncated(a.content)>>))

\* ------------------------------------------------- the Google Docs script
\* What extractContentFn finds on the page: the script elements in document
\* order.  A script is "other" (its text does not start with
\* 'DOCS_modelChunk ='), "bad" (it does, and JSON.parse throws) or "model"
\* with the chunk array of its JSON: items of a text s ("": no s) and a
\* position ibi (-1: no ibi).
Script(kind, chunk) == [kind |-> kind, chunk |-> chunk]
Item(s, ibi) == [s |-> s, ibi |-> ibi]
ChunkItem(index, text) == [index |-> index, text |-> text]

\* json.chunk.forEach: the items that have a text, index = c.ibi ?? 0.
RECURSIVE ChunksOf(_)
ChunksOf(chunk) ==
  IF chunk = <<>> THEN <<>>
  ELSE (IF Head(chunk).s # ""
          THEN <<ChunkItem(IF Head(chunk).ibi = -1 THEN 0 ELSE Head(chunk).ibi,
                           Head(chunk).s)>>
          ELSE <<>>) \o ChunksOf(Tail(chunk))

\* modelChunksScripts.forEach: a script that fails to parse is skipped.
RECURSIVE Parsed(_)
Parsed(scripts) ==
  IF scripts = <<>> THEN <<>>
  ELSE (IF Head(scripts).kind = "model" THEN ChunksOf(Head(scripts).chunk) ELSE <<>>)
       \o Parsed(Tail(scripts))

\* chunks.sort((a, b) => a.index - b.index): Array.prototype.sort is stable.
RECURSIVE Inserted(_, _)
Inserted(sorted, c) ==
  IF sorted = <<>> THEN <<c>>
  ELSE IF Head(sorted).index <= c.index THEN <<Head(sorted)>> \o Inserted(Tail(sorted), c)
  ELSE <<c>> \o sorted
RECURSIVE SortedFrom(_, _)
SortedFrom(sorted, chunks) ==
  IF chunks = <<>> THEN sorted
  ELSE SortedFrom(Inserted(sorted, Head(chunks)), Tail(chunks))
Sorted_not(chunks) == chunks
Sorted(chunks) == SortedFrom(<<>>, chunks)

\* chunks.map((c) => c.text).join('')
RECURSIVE Joined(_)
Joined(chunks) == IF chunks = <<>> THEN "" ELSE Head(chunks).text \o Joined(Tail(chunks))

\* The result of extractContentFn: content "" stands for content: null.
DocsResult(content, debug) == [content |-> content, debug |-> debug]
extractContentFn(scripts) ==
  IF \A i \in 1..Len(scripts) : scripts[i].kind = "other"
    THEN DocsResult("", "No DOCS_modelChunk scripts found")
  ELSE IF Parsed(scripts) = <<>>
    THEN DocsResult("", "Found scripts but failed to parse content")
  ELSE DocsResult(Joined(Sorted(Parsed(scripts))), "")

\* A run of the script on a page: chunks is its array after the sort.
NoDoc == [pc |-> "idle", scripts |-> <<>>, chunks |-> <<>>,
          result |-> DocsResult("", "")]

\* executeScript runs extractContentFn in the page.
ExtractRun ==
  /\ doc.pc = "idle"
  /\ doc' = [doc EXCEPT !.pc = "done",
                        !.chunks = Sorted(Parsed(doc.scripts)),
                        !.result = extractContentFn(doc.scripts)]

\* -------------------------------------------------- waitForTabComplete
\* A waitForTabComplete(tabId, timeoutMs) call of ChromeTabService.  pc is
\* "get" while chrome.tabs.get is awaited, "waiting" while the promise is
\* pending, then "resolved" or "rejected" (error: what it rejected with).
\* listener: the onUpdated listener is registered; timer: the timeout is
\* armed; completed: the tab was complete at the get or a completion update
\* of the tab reached the listener.
NoWait == [pc |-> "idle", tabId |-> 0, timeoutMs |-> 0, listener |-> FALSE,
           timer |-> FALSE, error |-> "none", completed |-> FALSE]

\* const cleanup = () => { clearTimeout(timeout); removeListener(listener) }
cleanup_keepListener(w) == [w EXCEPT !.timer = FALSE]
cleanup(w) == [w EXCEPT !.timer = FALSE, !.listener = FALSE]

\* resolve() and reject(error): a promise that is settled stays as it is.
resolve(w) == IF w.pc = "waiting" THEN [w EXCEPT !.pc = "resolved"] ELSE w
reject(w, error) ==
  IF w.pc = "waiting" THEN [w EXCEPT !.pc = "rejected", !.error = error] ELSE w

\* The call: chrome.tabs.get(tabId) is issued; timeoutMs defaults to 10000.
WaitCall(tabId, timeoutMs) ==
  /\ wt.pc = "idle"
  /\ wt' = [NoWait EXCEPT !.pc = "get", !.tabId = tabId, !.timeoutMs = timeoutMs]
  /\ UNCHANGED tabStatus

\* chrome.tabs.get answers: it rejects for a tab that does not exist; a
\* complete tab returns; otherwise the timer is set and the listener added.
WaitGot ==
  /\ wt.pc = "get"
  /\ wt' = IF tabStatus[wt.tabId] = "closed"
             THEN [wt EXCEPT !.pc = "rejected", !.error = "Error"]
           ELSE IF tabStatus[wt.tabId] = "complete"
             THEN [wt EXCEPT !.pc = "resolved", !.completed = TRUE]
           ELSE [wt EXCEPT !.pc = "waiting", !.timer = TRUE, !.listener = TRUE]
  /\ UNCHANGED tabStatus

\* The listener: (updatedTabId, changeInfo) => ...
listener(w, updatedTabId, status) ==
  IF updatedTabId = w.tabId /\ status = "complete"
    THEN resolve(cleanup([w EXCEPT !.completed = TRUE]))
    ELSE w

\* chrome.tabs.onUpdated fires for a tab whose status changes to status, or
\* whose title changes (status "none"); a registered listener runs.
TabUpdated(id, status) ==
  /\ tabStatus[id] # "closed"
  /\ status # "none" => tabStatus[id] # status
  /\ tabStatus' = IF status = "none" THEN tabStatus
                  ELSE [tabStatus EXCEPT ![id] = status]
  /\ wt' = IF wt.listener THEN listener(wt, id, status) ELSE wt

\* The tab is closed: no update follows.
TabClosed(id) ==
  /\ tabStatus[id] # "closed"
  /\ tabStatus' = [tabStatus EXCEPT ![id] = "closed"]
  /\ UNCHANGED wt

\* The timeout fires: the callback of setTimeout.
TimerFired ==
  /\ wt.timer
  /\ wt' = reject(cleanup(wt), "TimeoutError")
  /\ UNCHANGED tabStatus

\* The awaiting caller goes on with the settled promise.
WaitSettled ==
  /\ wt.pc \in {"resolved", "rejected"}
  /\ wt' = [NoWait EXCEPT !.listener = wt.listener]
  /\ UNCHANGED tabStatus

\* ------------------------------------------------------ tab listeners
\* removed: the closed tabs whose onRemoved event waits to be dispatched;
\* running: the tab whose onRemoved listener awaits removeTab (0: none);
\* handled: the tabs whose onRemoved listener has run to its end.
NoEv == [removed |-> {}, running |-> 0, handled |-> {}]

\* The caller that stands for the listeners of chrome.tabs, next to the
\* clients; Slots are all that call the pin store.
Listener == MaxCallers + 1
Slots == Callers \cup {Listener}

\* The host closes a tab, at any time, and queues the onRemoved event.
TabRemove(id) ==
  /\ id \in openTabs
  /\ Cardinality(TabIds \ openTabs) < MaxClosed
  /\ openTabs' = openTabs \ {id}
  /\ ev' = [ev EXCEPT !.removed = @ \cup {id}]
  /\ UNCHANGED <<pinVars, legacy>>

\* chrome.tabs.onRemoved listener: await this.contextManager.removeTab(tabId),
\* then the sidebar is told to check the pinned tabs.
onRemoved(tabId) ==
  /\ tabId \in ev.removed
  /\ ev.running = 0
  /\ RemoveTabCall(Listener, tabId)
  /\ ev' = IF call'[Listener].ret = "pending"
             THEN [ev EXCEPT !.removed = @ \ {tabId}, !.running = tabId]
             ELSE [ev EXCEPT !.removed = @ \ {tabId}, !.handled = @ \cup {tabId}]

\* ... the save of removeTab is done.
onRemovedSaved ==
  /\ ev.running # 0
  /\ SaveDone(Listener)
  /\ ev' = [ev EXCEPT !.running = 0, !.handled = @ \cup {ev.running}]

\* chrome.tabs.onUpdated listener, for a change of url, title or a completed
\* load: a pinned tab gets tab.url || '' and tab.title || 'Untitled'.
onUpdated(tabId, url, title) ==
  /\ tabId \in openTabs
  /\ ev.running = 0
  /\ IF isTabPinned(pinnedTabs, tabId)
       THEN UpdateTabMetadataCall(Listener, tabId, url, title)
       ELSE /\ Ready(Listener)
            /\ call' = [call EXCEPT ![Listener] =
                          [op |-> "isTabPinned", ret |-> "ok", writes |-> 0]]
            /\ UNCHANGED <<pinnedTabs, pinStorage, ld, hostVars>>
  /\ UNCHANGED ev

\* ... the save of updateTabMetadata is done.
onUpdatedSaved ==
  /\ call[Listener].op = "updateTabMetadata"
  /\ SaveDone(Listener)
  /\ UNCHANGED ev

\* ------------------------------------------- ChatHistory and its objects
\* JavaScript arrays hold references.  objects[ref] is a message object,
\* messages is the array this.messages, returned is the array the caller
\* holds after getMessages() (held); the elements of both are references.
NoHeap == [objects |-> <<>>, messages |-> <<>>, returned |-> <<>>, held |-> FALSE]

\* getMessages(): [...this.messages], a new array with the same elements.
getMessages(h) == [i \in 1..Len(h.messages) |-> h.messages[i]]

\* What the messages of an array of references are.
Deref(h, array) == [i \in 1..Len(array) |-> h.objects[array[i]]]

\* addMessage(message): the caller's new object is pushed.
HistoryAdd(role, text) ==
  /\ Len(heap.objects) < MaxObjects
  /\ heap' = [heap EXCEPT !.objects = Append(@, [role |-> role, text |-> text]),
                          !.messages = Append(@, Len(heap.objects) + 1)]

\* clear(): this.messages = [].
HistoryClear ==
  /\ heap.messages # <<>>
  /\ heap' = [heap EXCEPT !.messages = <<>>]

\* const got = chatHistory.getMessages()
HistoryGet ==
  heap' = [heap EXCEPT !.returned = getMessages(heap), !.held = TRUE]

\* got.push({ role, text })
CallerPush(role, text) ==
  /\ heap.held
  /\ Len(heap.objects) < MaxObjects
  /\ heap' = [heap EXCEPT !.objects = Append(@, [role |-> role, text |-> text]),
                          !.returned = Append(@, Len(heap.objects) + 1)]

\* got.pop()
CallerPop ==
  /\ heap.held
  /\ heap.returned # <<>>
  /\ heap' = [heap EXCEPT !.returned = SubSeq(@, 1, Len(@) - 1)]

\* got[i].role = role; got[i].text = text
CallerWrite(i, role, text) ==
  /\ heap.held
  /\ i \in 1..Len(heap.returned)
  /\ heap.objects[heap.returned[i]] # [role |-> role, text |-> text]
  /\ heap' = [heap EXCEPT !.objects[heap.returned[i]] = [role |-> role, text |-> text]]

\* ------------------------------------------- GeminiService.generateContent
\* A call of generateContent(apiKey, context, history): pc is "call" when it
\* is made, "fetch" while the request is out, "done" when it has returned;
\* contents is the `contents` of the request body.
NoWire == [pc |-> "idle", apiKey |-> FALSE, context |-> <<>>, history |-> <<>>,
           contents |-> <<>>, result |-> "none"]

\* const contextParts = context.map(...): ContentPart to the part of the API.
contextParts(context) ==
  [i \in 1..Len(context) |->
     IF context[i].type = "text"
       THEN [text |-> context[i].text]
       ELSE [file_data |-> [mime_type |-> context[i].mimeType,
                            file_uri |-> context[i].fileUri]]]

\* const contents = history.map(...), then the context parts are put in
\* front of the parts of the last message.
\* (mutant: the context parts are put behind them)
contents_contextBehind(history, context) ==
  LET mapped == [i \in 1..Len(history) |->
                   [role |-> history[i].role, parts |-> <<[text |-> history[i].text]>>]]
  IN IF Len(mapped) > 0 /\ mapped[Len(mapped)].role = "user" /\ Len(context) > 0
       THEN [mapped EXCEPT ![Len(mapped)].parts = @ \o contextParts(context)]
       ELSE mapped
contents(history, context) ==
  LET mapped == [i \in 1..Len(history) |->
                   [role |-> history[i].role, parts |-> <<[text |-> history[i].text]>>]]
  IN IF Len(mapped) > 0 /\ mapped[Len(mapped)].role = "user" /\ Len(context) > 0
       THEN [mapped EXCEPT ![Len(mapped)].parts = contextParts(context) \o @]
       ELSE mapped

\* generateContent up to its fetch: the three checks, then the request.
GenerateContentCall ==
  /\ wire.pc = "call"
  /\ wire' =
       IF ~wire.apiKey
         THEN [wire EXCEPT !.pc = "done", !.result = "API key is required"]
       ELSE IF Len(wire.history) = 0
         THEN [wire EXCEPT !.pc = "done", !.result = "Chat history cannot be empty"]
       ELSE IF wire.history[Len(wire.history)].role # "user"
         THEN [wire EXCEPT !.pc = "done", !.result = "The last message must be from the user"]
       ELSE [wire EXCEPT !.pc = "fetch",
                         !.contents = contents(wire.history, wire.context)]

\* generateContent, the fetch answered or was aborted.
GenerateContentAnswered(result) ==
  /\ wire.pc = "fetch"
  /\ wire' = [wire EXCEPT !.pc = "done", !.result = result]

SvcIdle ==
  /\ doc = NoDoc
  /\ wt = NoWait
  /\ tabStatus = [id \in TabIds |-> "complete"]
  /\ ev = NoEv
  /\ heap = NoHeap
  /\ wire = NoWire

\* --------------------------------------------------------- content assembly
PinnedHeader(tab) ==
  Text(<<Lit("\n\n--- Pinned Tab: "), Lit(tab.title), Lit(" ("), UrlText(tab.url),
         Lit(") ---")>>)
ActiveHeader(url) == Text(<<Lit("Current tab URL: "), UrlText(url)>>)
ActiveLabel(url) ==
  Text(<<Lit("Current tab URL: "), UrlText(url),
         Lit("\n(Content included in pinned tabs)")>>)

\* The loop of getAllContent from entry g.idx on, up to the next await of the
\* tab service or to the return: the pair of the run and of its readContent.
RECURSIVE getAllContent_noHeader(_)
getAllContent_noHeader(g) ==
  IF g.idx > Len(g.tabs) THEN [ga |-> [g EXCEPT !.pc = "done"], rc |-> NoRead]
  ELSE LET tab == g.tabs[g.idx]
           r == readContent(tab.tabId, tab.url)
       IN IF r.pc = "done"
            THEN getAllContent_noHeader([g EXCEPT !.parts = Append(@, r.part),
                                                  !.reads = Append(@, r),
                                                  !.idx = @ + 1])
            ELSE [ga |-> [g EXCEPT !.pc = "read"], rc |-> r]
RECURSIVE getAllContent(_)
getAllContent(g) ==
  IF g.idx > Len(g.tabs) THEN [ga |-> [g EXCEPT !.pc = "done"], rc |-> NoRead]
  ELSE LET tab == g.tabs[g.idx]
           g1 == [g EXCEPT !.parts = Append(@, PinnedHeader(tab))]
           r == readContent(tab.tabId, tab.url)
       IN IF r.pc = "done"
            THEN getAllContent([g1 EXCEPT !.parts = Append(@, r.part),
                                          !.reads = Append(@, r),
                                          !.idx = @ + 1])
            ELSE [ga |-> [g1 EXCEPT !.pc = "read"], rc |-> r]

\* readContent() has advanced to r: the run g awaiting it goes on when it
\* returned, and throws when it threw.
Resumed(g, r) ==
  IF g.pc # "read" \/ r.pc \notin {"done", "thrown"} THEN [ga |-> g, rc |-> r]
  ELSE IF r.pc = "thrown" THEN [ga |-> [g EXCEPT !.pc = "thrown"], rc |-> r]
  ELSE IF g.op = "getActiveTabContent"
    THEN [ga |-> [g EXCEPT !.pc = "done", !.parts = Append(@, r.part),
                           !.reads = Append(@, r)],
          rc |-> NoRead]
  ELSE getAllContent([g EXCEPT !.parts = Append(@, r.part),
                               !.reads = Append(@, r), !.idx = @ + 1])

\* getActiveTabContent(), from the answer of tabService.query on.
getActiveTabContent_noDedupe(g, tabs, activeTab) ==
  IF activeTab # NoTab /\ activeTab.url # EmptyUrl /\ activeTab.tabId # 0
    THEN Resumed([g EXCEPT !.pc = "read", !.active = activeTab,
                           !.parts = <<ActiveHeader(activeTab.url)>>],
                 readContent(activeTab.tabId, activeTab.url))
    ELSE [ga |-> [g EXCEPT !.pc = "done", !.active = activeTab], rc |-> NoRead]
getActiveTabContent(g, tabs, activeTab) ==
  IF activeTab # NoTab /\ activeTab.url # EmptyUrl /\ activeTab.tabId # 0
    THEN IF isTabPinned(tabs, activeTab.tabId)
           THEN [ga |-> [g EXCEPT !.pc = "done", !.active = activeTab,
                                  !.parts = <<ActiveLabel(activeTab.url)>>],
                 rc |-> NoRead]
           ELSE Resumed([g EXCEPT !.pc = "read", !.active = activeTab,
                                  !.parts = <<ActiveHeader(activeTab.url)>>],
                        readContent(activeTab.tabId, activeTab.url))
    ELSE [ga |-> [g EXCEPT !.pc = "done", !.active = activeTab], rc |-> NoRead]

\* tab.readContent() is called on pinned entry i.
ReadCall(i) ==
  /\ rc.pc = "idle"
  /\ ga.pc = "idle"
  /\ i \in 1..Len(pinnedTabs)
  /\ rc' = readContent(pinnedTabs[i].tabId, pinnedTabs[i].url)
  /\ UNCHANGED <<ga, pinVars, hostVars>>

\* The caller of readContent() takes the fragment.
ReadReturn ==
  /\ rc.pc = "done"
  /\ ga.pc = "idle"
  /\ rc' = NoRead
  /\ UNCHANGED <<ga, pinVars, hostVars>>

\* The tab service answers getTab, waitForTabComplete, executeScript.
ReadGetTab(a) ==
  /\ rc.pc = "getTab"
  /\ LET n == Resumed(ga, getTabAnswered(rc, a)) IN rc' = n.rc /\ ga' = n.ga
  /\ UNCHANGED <<pinVars, hostVars>>

ReadWait(a) ==
  /\ rc.pc = "wait"
  /\ LET n == Resumed(ga, waitAnswered(rc, a)) IN rc' = n.rc /\ ga' = n.ga
  /\ UNCHANGED <<pinVars, hostVars>>

ReadScript(a) ==
  /\ rc.pc = "exec"
  /\ LET n == Resumed(ga, scriptAnswered(rc, a)) IN rc' = n.rc /\ ga' = n.ga
  /\ UNCHANGED <<pinVars, hostVars>>

GetAllContentCall ==
  /\ rc.pc = "idle"
  /\ ga.pc = "idle"
  /\ LET n == getAllContent([NoGet EXCEPT !.op = "getAllContent",
                                          !.tabs = pinnedTabs, !.idx = 1])
     IN rc' = n.rc /\ ga' = n.ga
  /\ UNCHANGED <<pinVars, hostVars>>

GetActiveTabContentCall ==
  /\ rc.pc = "idle"
  /\ ga.pc = "idle"
  /\ ga' = [NoGet EXCEPT !.op = "getActiveTabContent", !.pc = "query"]
  /\ UNCHANGED <<rc, pinVars, hostVars>>

\* The host answers tabService.query({active, currentWindow}).
ActiveQueried(activeTab) ==
  /\ ga.pc = "query"
  /\ LET n == getActiveTabContent(ga, pinnedTabs, activeTab)
     IN rc' = n.rc /\ ga' = n.ga
  /\ UNCHANGED <<pinVars, hostVars>>

\* ------------------------------------------------------------ chat state
\* A message of the chat: text is the number of the request that sent it (or
\* was answered by it), 0 for a conversation of an earlier run.
ChatMessage(role, text) == [role |-> role, text |-> text]

\* The persisted chat record: absent until the first save, then an array.
NoHistory == [isArray |-> FALSE, history |-> <<>>]
Stored(history) == [isArray |-> TRUE, history |-> history]

NoReq == [type |-> "none", includeCurrentTab |-> FALSE, pc |-> "idle",
          outcome |-> "none", snapshot |-> NoHistory, left |-> 0, signal |-> 0,
          stoppedAt |-> "none", invoked |-> FALSE, history |-> <<>>,
          activeContext |-> <<>>, pinnedContent |-> <<>>, context |-> <<>>,
          log |-> <<>>, after |-> {}, error |-> ""]

\* A process that has handled no message yet.
ChatIdle ==
  /\ messages = <<>>
  /\ chatStorage = NoHistory
  /\ apiKey = TRUE
  /\ abortController = 0
  /\ aborted = {}
  /\ req = [r \in Callers |-> NoReq]

\* ------------------------------------------------------- SpecPin
\* One client calling addTab and removeTab one after the other, awaiting each
\* call, on a ContextManager that starts empty.
PinInit ==
  /\ ChatIdle
  /\ ReadIdle
  /\ SvcIdle
  /\ pinnedTabs = <<>>
  /\ pinStorage = <<>>
  /\ call = [c \in Callers |-> NoCall]
  /\ ld = [c \in Callers |-> NoLoad]
  /\ openTabs = TabIds
  /\ legacy = <<>>
  /\ fuel = 0

PinAdd == \E id \in TabIds : \E url \in InputUrls(id) :
            AddTabCall(1, TabContext(id, url, InputTitle(id))) /\ UNCHANGED <<fuel, svcVars, readVars, chatVars>>
PinRemove == \E id \in TabIds : RemoveTabCall(1, id) /\ UNCHANGED <<fuel, svcVars, readVars, chatVars>>
PinSaveDone == SaveDone(1) /\ UNCHANGED <<fuel, svcVars, readVars, chatVars>>

PinNext == PinAdd \/ PinRemove \/ PinSaveDone

SpecPin == PinInit /\ [][PinNext]_vars

\* ------------------------------------------------------- SpecRace
\* Clients that each make one addTab call, concurrently, on a store that
\* already holds tabs 1..k (k = 0..MAX_PINNED_TABS).
Pinned(ids) == [i \in 1..Len(ids) |->
                  TabContext(ids[i], HostUrl(ids[i]), InputTitle(ids[i]))]
Upto(n) == [i \in 1..n |-> i]

RaceInit ==
  /\ ChatIdle
  /\ ReadIdle
  /\ SvcIdle
  /\ \E k \in 0..MAX_PINNED_TABS :
       /\ pinnedTabs = Pinned(Upto(k))
       /\ pinStorage = save(Pinned(Upto(k)))
  /\ call = [c \in Callers |-> NoCall]
  /\ ld = [c \in Callers |-> NoLoad]
  /\ openTabs = TabIds
  /\ legacy = <<>>
  /\ fuel = 0

RaceAdd == \E c \in Callers : \E id \in TabIds : \E url \in InputUrls(id) :
             /\ call[c].op = "none"
             /\ AddTabCall(c, TabContext(id, url, InputTitle(id)))
             /\ UNCHANGED <<fuel, svcVars, readVars, chatVars>>
RaceSaveDone == \E c \in Callers : SaveDone(c) /\ UNCHANGED <<fuel, svcVars, readVars, chatVars>>

RaceNext == RaceAdd \/ RaceSaveDone

SpecRace == RaceInit /\ [][RaceNext]_vars

\* ------------------------------------------------------- SpecLoad
\* A restarted process: the in-memory list is empty, the persisted list is
\* what an earlier run (or an earlier version) left, and one client calls
\* load() again and again while the host closes tabs between the calls.
MaxStored == MAX_PINNED_TABS + 1
Downfrom(n) == [i \in 1..n |-> n + 1 - i]
TabInfo(id) == [id |-> id, title |-> "Old", url |-> Url("https://", 0)]
LegacyLists ==
  {[i \in 1..Len(ids) |-> TabInfo(ids[i])] :
     ids \in {Upto(n) : n \in 0..MaxStored} \cup {Downfrom(n) : n \in 0..MaxStored}}

LoadInit ==
  /\ ChatIdle
  /\ ReadIdle
  /\ SvcIdle
  /\ pinnedTabs = <<>>
  /\ pinStorage \in LegacyLists
  /\ legacy = pinStorage
  /\ call = [c \in Callers |-> NoCall]
  /\ ld = [c \in Callers |-> NoLoad]
  /\ openTabs = TabIds
  /\ fuel = 0

LoadStart == LoadCall(1) /\ UNCHANGED <<fuel, svcVars, readVars, chatVars>>
LoadGet == LoadGot(1) /\ UNCHANGED <<fuel, svcVars, readVars, chatVars>>
LoadGetTab == LoadTab(1) /\ UNCHANGED <<fuel, svcVars, readVars, chatVars>>
LoadSaveDone == SaveDone(1) /\ UNCHANGED <<fuel, svcVars, readVars, chatVars>>
LoadClose == \E id \in TabIds : HostCloseTab(id) /\ UNCHANGED <<fuel, svcVars, readVars, chatVars>>

LoadNext == LoadStart \/ LoadGet \/ LoadGetTab \/ LoadSaveDone \/ LoadClose

SpecLoad == LoadInit /\ [][LoadNext]_vars

\* ------------------------------------------------------- SpecLegacy
\* The same restarted process, whose client calls load, addTab and removeTab
\* one after the other (MaxCalls calls of addTab/removeTab in a run); the
\* host has closed at most one of the tabs before.
\* the tabs of the host: those of the longest stored list and one more
LegacyIds == 1..(MaxStored + 1)

LegacyInit ==
  /\ ChatIdle
  /\ ReadIdle
  /\ SvcIdle
  /\ pinnedTabs = <<>>
  /\ pinStorage \in LegacyLists
  /\ legacy = pinStorage
  /\ call = [c \in Callers |-> NoCall]
  /\ ld = [c \in Callers |-> NoLoad]
  /\ openTabs \in {LegacyIds} \cup {LegacyIds \ {id} : id \in {1, MAX_PINNED_TABS}}
  /\ fuel = MaxCalls

LegacyAdd == \E id \in LegacyIds : \E url \in InputUrls(id) :
               /\ fuel > 0
               /\ fuel' = fuel - 1
               /\ AddTabCall(1, TabContext(id, url, InputTitle(id)))
               /\ UNCHANGED <<chatVars, readVars, svcVars>>
LegacyRemove == \E id \in LegacyIds :
                  /\ fuel > 0
                  /\ fuel' = fuel - 1
                  /\ RemoveTabCall(1, id)
                  /\ UNCHANGED <<chatVars, readVars, svcVars>>

LegacyNext == LoadStart \/ LoadGet \/ LoadGetTab \/ LoadSaveDone
              \/ LegacyAdd \/ LegacyRemove

SpecLegacy == LegacyInit /\ [][LegacyNext]_vars

\* ------------------------------------------------------- SpecMeta
\* A store that holds tabs 1..k (k = 0..MaxMeta) while the tabs navigate:
\* the onUpdated listener hands tab.url || '' and tab.title || 'Untitled' to
\* updateTabMetadata, for pinned tabs and (called directly) for others.
MetaUrls == {Url("https://", 0), Url("https://", 50), Url("chrome://", 0), EmptyUrl}
MetaTitles == {"Page", "Untitled"}

MetaInit ==
  /\ ChatIdle
  /\ ReadIdle
  /\ SvcIdle
  /\ \E k \in 0..MaxMeta :
       /\ pinnedTabs = Pinned(Upto(k))
       /\ pinStorage = save(Pinned(Upto(k)))
  /\ call = [c \in Callers |-> NoCall]
  /\ ld = [c \in Callers |-> NoLoad]
  /\ openTabs = TabIds
  /\ legacy = <<>>
  /\ fuel = 0

MetaUpdate == \E tabId \in 1..(MaxMeta + 1) : \E url \in MetaUrls : \E title \in MetaTitles :
                UpdateTabMetadataCall(1, tabId, url, title) /\ UNCHANGED <<fuel, svcVars, readVars, chatVars>>
MetaSaveDone == SaveDone(1) /\ UNCHANGED <<fuel, svcVars, readVars, chatVars>>

MetaNext == MetaUpdate \/ MetaSaveDone

SpecMeta == MetaInit /\ [][MetaNext]_vars

\* ------------------------------------------------------- SpecRead
\* One pinned tab that navigates between two reads (onUpdated ->
\* updateTabMetadata) and whose content is read again and again, the tab
\* service answering in every way.
ReadUrls ==
  {Url("https://", 0), Url("https://", 101), Url("https://", 102), Url("https://", 103)}
NavUrls ==
  ReadUrls \cup {Url("chrome://", 0), Url("about:", 0), Url("file://", 102),
                 Url("chrome-extension://", 101)}

ReadInit ==
  /\ ChatIdle
  /\ ReadIdle
  /\ SvcIdle
  /\ \E url \in ReadUrls :
       /\ pinnedTabs = <<TabContext(1, url, "Page")>>
       /\ pinStorage = save(pinnedTabs)
  /\ call = [c \in Callers |-> NoCall]
  /\ ld = [c \in Callers |-> NoLoad]
  /\ openTabs = TabIds
  /\ legacy = <<>>
  /\ fuel = 0

ReadNavigate ==
  \E url \in NavUrls :
    /\ rc.pc = "idle"
    /\ url # pinnedTabs[1].url
    /\ UpdateTabMetadataCall(1, 1, url, "Page")
    /\ UNCHANGED <<fuel, svcVars, readVars, chatVars>>
ReadSaveDone == SaveDone(1) /\ UNCHANGED <<fuel, svcVars, readVars, chatVars>>
ReadStart == ReadCall(1) /\ UNCHANGED <<fuel, svcVars, chatVars>>
ReadTabGot == \E a \in TabAnswers : ReadGetTab(a) /\ UNCHANGED <<fuel, svcVars, chatVars>>
ReadWaited == \E a \in WaitAnswers : ReadWait(a) /\ UNCHANGED <<fuel, svcVars, chatVars>>
ReadScripted ==
  \E a \in ScriptAnswers(rc.strategy) : ReadScript(a) /\ UNCHANGED <<fuel, svcVars, chatVars>>
ReadEnd == ReadReturn /\ UNCHANGED <<fuel, svcVars, chatVars>>

ReadNext ==
  \/ ReadNavigate
  \/ ReadSaveDone
  \/ ReadStart
  \/ ReadTabGot
  \/ ReadWaited
  \/ ReadScripted
  \/ ReadEnd

SpecRead == ReadInit /\ [][ReadNext]_vars

\* ------------------------------------------------------- SpecContent
\* A store that holds up to MaxRead of the tabs 1..(MaxRead + 2), on which
\* getAllContent() or getActiveTabContent() runs once.  Tab 1 shows a web
\* page, tab 2 a Google Docs document, tab 3 a YouTube video, tab 4 has
\* navigated to an internal page after it was pinned; the others show web
\* pages.
ContentUrl(id) ==
  IF id = 2 THEN Url("https://", 102)
  ELSE IF id = 3 THEN Url("https://", 101)
  ELSE IF id = 4 THEN Url("chrome://", 0)
  ELSE Url("https://", id)
ContentTab(id) == TabContext(id, ContentUrl(id), "Page")
ContentIds == 1..(MaxRead + 2)
ContentLists ==
  {ids \in UNION {[1..n -> ContentIds] : n \in 0..MaxRead} :
     \A i, j \in 1..Len(ids) : i # j => ids[i] # ids[j]}
\* The foreground tab: none, one of the tabs, a tab without url, a tab
\* without id.
QueryAnswers ==
  {NoTab} \cup {ContentTab(id) : id \in ContentIds} \cup
  {TabContext(1, EmptyUrl, "Page"), TabContext(0, Url("https://", 1), "Page")}
ContentScriptAnswers(strategy) ==
  {a \in ScriptAnswers(strategy) :
     \/ a.throws /\ a.message # ""
     \/ ~a.throws /\ a.content.id \in {0, 3} /\ a.debug = ""}

ContentInit ==
  /\ ChatIdle
  /\ ReadIdle
  /\ SvcIdle
  /\ \E ids \in ContentLists :
       /\ pinnedTabs = [i \in 1..Len(ids) |-> ContentTab(ids[i])]
       /\ pinStorage = save(pinnedTabs)
  /\ call = [c \in Callers |-> NoCall]
  /\ ld = [c \in Callers |-> NoLoad]
  /\ openTabs = TabIds
  /\ legacy = <<>>
  /\ fuel = 0

ContentGetAll == GetAllContentCall /\ UNCHANGED <<fuel, svcVars, chatVars>>
ContentGetActive == GetActiveTabContentCall /\ UNCHANGED <<fuel, svcVars, chatVars>>
ContentQueried ==
  \E a \in QueryAnswers : ActiveQueried(a) /\ UNCHANGED <<fuel, svcVars, chatVars>>
ContentTabGot == \E a \in TabAnswers : ReadGetTab(a) /\ UNCHANGED <<fuel, svcVars, chatVars>>
ContentWaited == \E a \in WaitAnswers : ReadWait(a) /\ UNCHANGED <<fuel, svcVars, chatVars>>
ContentScripted ==
  \E a \in ContentScriptAnswers(rc.strategy) :
    ReadScript(a) /\ UNCHANGED <<fuel, svcVars, chatVars>>

ContentNext ==
  \/ ContentGetAll
  \/ ContentGetActive
  \/ ContentQueried
  \/ ContentTabGot
  \/ ContentWaited
  \/ ContentScripted

SpecContent == ContentInit /\ [][ContentNext]_vars

\* ------------------------------------------------------- SpecDocs
\* The Google Docs page script on pages of up to MaxScripts script elements:
\* other scripts, model scripts that do not parse, and model scripts with up
\* to two chunk items, with texts and positions that repeat, lack or differ.
Items ==
  {Item("a", 0), Item("b", 1), Item("c", 2), Item("d", -1), Item("", 1)}
Scripts ==
  {Script("other", <<>>), Script("bad", <<>>)} \cup
  {Script("model", chunk) : chunk \in {<<>>} \cup {<<x>> : x \in Items}
                                      \cup {<<x, y>> : x \in Items, y \in Items}}
Pages == UNION {[1..n -> Scripts] : n \in 0..MaxScripts}

DocsInit ==
  /\ ChatIdle
  /\ ReadIdle
  /\ \E scripts \in Pages : doc = [NoDoc EXCEPT !.scripts = scripts]
  /\ wt = NoWait
  /\ tabStatus = [id \in TabIds |-> "complete"]
  /\ ev = NoEv
  /\ heap = NoHeap
  /\ wire = NoWire
  /\ pinnedTabs = <<>>
  /\ pinStorage = <<>>
  /\ call = [c \in Callers |-> NoCall]
  /\ ld = [c \in Callers |-> NoLoad]
  /\ openTabs = TabIds
  /\ legacy = <<>>
  /\ fuel = 0

DocsNext ==
  ExtractRun /\ UNCHANGED <<pinVars, hostVars, fuel, chatVars, readVars, wt, tabStatus, ev, heap, wire>>

SpecDocs == DocsInit /\ [][DocsNext]_vars

\* ------------------------------------------------------- SpecWait
\* waitForTabComplete() calls on the tabs WaitTabs with the timeouts the code
\* uses (2000 from the strategies, the default 10000), while the tabs load,
\* complete, change their title and are closed.
WaitTabs == {1, 2}
WaitTimeouts == {2000, 10000}

WaitInit ==
  /\ ChatIdle
  /\ ReadIdle
  /\ SvcIdle
  /\ pinnedTabs = <<>>
  /\ pinStorage = <<>>
  /\ call = [c \in Callers |-> NoCall]
  /\ ld = [c \in Callers |-> NoLoad]
  /\ openTabs = TabIds
  /\ legacy = <<>>
  /\ fuel = 0

WaitStart ==
  \E tabId \in WaitTabs, timeoutMs \in WaitTimeouts :
    WaitCall(tabId, timeoutMs) /\ UNCHANGED <<pinVars, hostVars, fuel, chatVars, readVars, doc, ev, heap, wire>>
WaitTabGot == WaitGot /\ UNCHANGED <<pinVars, hostVars, fuel, chatVars, readVars, doc, ev, heap, wire>>
WaitTabUpdated ==
  \E id \in WaitTabs, status \in {"loading", "complete", "none"} :
    TabUpdated(id, status) /\ UNCHANGED <<pinVars, hostVars, fuel, chatVars, readVars, doc, ev, heap, wire>>
WaitTabClosed ==
  \E id \in WaitTabs :
    TabClosed(id) /\ UNCHANGED <<pinVars, hostVars, fuel, chatVars, readVars, doc, ev, heap, wire>>
WaitTimerFired == TimerFired /\ UNCHANGED <<pinVars, hostVars, fuel, chatVars, readVars, doc, ev, heap, wire>>
WaitEnd == WaitSettled /\ UNCHANGED <<pinVars, hostVars, fuel, chatVars, readVars, doc, ev, heap, wire>>

WaitNext ==
  \/ WaitStart
  \/ WaitTabGot
  \/ WaitTabUpdated
  \/ WaitTabClosed
  \/ WaitTimerFired
  \/ WaitEnd

SpecWait == WaitInit /\ [][WaitNext]_vars

\* The host answers chrome.tabs.get, and a timer that stays armed fires.
SpecWaitFair == SpecWait /\ WF_vars(WaitTabGot) /\ WF_vars(WaitTimerFired)

\* ------------------------------------------------------- SpecCopy
\* One ChatHistory and one caller: messages are added, the history is
\* cleared, the caller asks for the messages and changes what it was given.
Roles == {"user", "model"}
Texts == {1, 2}

CopyInit == WaitInit

CopyAdd ==
  \E role \in Roles, text \in Texts :
    HistoryAdd(role, text) /\ UNCHANGED <<pinVars, hostVars, fuel, chatVars, readVars, doc, wt, tabStatus, ev, wire>>
CopyClear == HistoryClear /\ UNCHANGED <<pinVars, hostVars, fuel, chatVars, readVars, doc, wt, tabStatus, ev, wire>>
CopyGet == HistoryGet /\ UNCHANGED <<pinVars, hostVars, fuel, chatVars, readVars, doc, wt, tabStatus, ev, wire>>
CopyPush ==
  \E role \in Roles, text \in Texts :
    CallerPush(role, text) /\ UNCHANGED <<pinVars, hostVars, fuel, chatVars, readVars, doc, wt, tabStatus, ev, wire>>
CopyPop == CallerPop /\ UNCHANGED <<pinVars, hostVars, fuel, chatVars, readVars, doc, wt, tabStatus, ev, wire>>
CopyWrite ==
  \E i \in 1..MaxObjects, role \in Roles, text \in Texts :
    CallerWrite(i, role, text) /\ UNCHANGED <<pinVars, hostVars, fuel, chatVars, readVars, doc, wt, tabStatus, ev, wire>>

CopyNext == CopyAdd \/ CopyClear \/ CopyGet \/ CopyPush \/ CopyPop \/ CopyWrite

SpecCopy == CopyInit /\ [][CopyNext]_vars

\* ------------------------------------------------------- SpecWire
\* One generateContent() call on every history of up to MaxHistory messages
\* and every context of up to MaxContext parts, text or file reference.
WireParts == {Text(<<Lit("header")>>), Text(<<Lit("page")>>),
              FileData(Url("https://www.youtube.com/watch", 20))}
Histories == UNION {[1..n -> {ChatMessage(role, text) : role \in Roles, text \in Texts}]
                      : n \in 0..MaxHistory}
Contexts == UNION {[1..n -> WireParts] : n \in 0..MaxContext}

WireInit ==
  /\ ChatIdle
  /\ ReadIdle
  /\ doc = NoDoc
  /\ wt = NoWait
  /\ tabStatus = [id \in TabIds |-> "complete"]
  /\ ev = NoEv
  /\ heap = NoHeap
  /\ \E key \in BOOLEAN, history \in Histories, context \in Contexts :
       wire = [NoWire EXCEPT !.pc = "call", !.apiKey = key,
                             !.history = history, !.context = context]
  /\ pinnedTabs = <<>>
  /\ pinStorage = <<>>
  /\ call = [c \in Callers |-> NoCall]
  /\ ld = [c \in Callers |-> NoLoad]
  /\ openTabs = TabIds
  /\ legacy = <<>>
  /\ fuel = 0

WireCall ==
  GenerateContentCall /\ UNCHANGED <<pinVars, hostVars, fuel, chatVars, readVars, doc, wt, tabStatus, ev, heap>>
WireAnswered ==
  \E result \in {"reply", "error", "aborted"} :
    GenerateContentAnswered(result) /\ UNCHANGED <<pinVars, hostVars, fuel, chatVars, readVars, doc, wt, tabStatus, ev, heap>>

WireNext == WireCall \/ WireAnswered

SpecWire == WireInit /\ [][WireNext]_vars

\* ------------------------------------------------- chat request handling
\* ChatHistory.removeLastMessage: pops the last message (the caller persists).
removeLastMessage(msgs) ==
  IF Len(msgs) = 0 THEN msgs ELSE SubSeq(msgs, 1, Len(msgs) - 1)

\* The tab that is active in the current window.
ActiveTab == 1

\* In the operators below q is the record of request r as the running step
\* has updated it so far.  Its log lists what the request has done: "append"
\* (addMessage of the user message called), "active" (getActiveTabContent
\* called), "pinned" (getAllContent called), "generate" (generateContent
\* called), "returned" (generateContent returned), "reply" (addMessage of
\* the reply called).  activeContext and pinnedContent hold one fragment
\* each for the array the call returned; after is the set of the requests
\* that were answered when this one arrived.

\* const fullContext = [...activeContext, ...pinnedContent]
fullContext_pinnedFirst(activeContext, pinnedContent) == pinnedContent \o activeContext
fullContext(activeContext, pinnedContent) == activeContext \o pinnedContent

\* What is thrown: an Error (isError) with its name and message, or the
\* chrome.runtime.lastError object a storage service rejects with.
Exception(isError, name, message) ==
  [isError |-> isError, name |-> name, message |-> message]
NullSignal ==
  Exception(TRUE, "TypeError", "Cannot read properties of null (reading 'signal')")
StorageError == Exception(FALSE, "", "Storage is not available")
QueryError == Exception(TRUE, "Error", "No current window")

\* handleMessage, its catch: the result { success: false, error: errorMessage }.
\* (mutant: the exception is thrown on)
handleMessageCatch_rethrow(q, error) ==
  [q EXCEPT !.pc = "done", !.outcome = "rejected", !.error = error.message]
handleMessageCatch(q, error) ==
  [q EXCEPT !.pc = "done", !.outcome = "failure",
            !.error = IF error.isError THEN error.message ELSE "[object Object]"]

\* handleChatMessage, its catch: isAbort.
isAbort(error) == error.name = "AbortError"

\* An error that is not an abort is thrown inside the try of
\* handleChatMessage: its catch throws it on, `finally` clears the controller
\* handle, and the catch of handleMessage makes the result.
Throw(r, q, error) ==
  /\ abortController' = 0
  /\ req' = [req EXCEPT ![r] = handleMessageCatch(q, error)]
  /\ UNCHANGED <<messages, chatStorage, aborted>>

\* handleChatMessage returns from inside its try: `finally` clears
\* the controller handle, whichever request's controller it holds.
Return(r, q, outcome) ==
  /\ abortController' = 0
  /\ req' = [req EXCEPT ![r] = [q EXCEPT !.pc = "done", !.outcome = outcome]]
  /\ UNCHANGED <<messages, chatStorage, aborted>>

\* handleChatMessage, the catch of an AbortError: removeLastMessage is awaited.
Rollback(r, q) ==
  /\ messages' = removeLastMessage(messages)
  /\ chatStorage' = Stored(messages')
  /\ req' = [req EXCEPT ![r] = [q EXCEPT !.pc = "rollback"]]
  /\ UNCHANGED <<abortController, aborted>>

\* The call of geminiService.generateContent and generateContent up to its
\* fetch.  Reading this.abortController.signal on a cleared handle throws a
\* TypeError before the call.  The service answers at once with an error on
\* an empty history or a last message that is not the user's, and with
\* { aborted: true } when the signal is aborted already (fetch rejects).
Generate(r, q) ==
  IF abortController = 0
    THEN Throw(r, q, NullSignal)
  ELSE LET history == messages
           g == [q EXCEPT !.invoked = TRUE, !.history = history,
                          !.context = fullContext(q.activeContext, q.pinnedContent),
                          !.log = Append(@, "generate")]
       IN
    IF Len(history) = 0 \/ history[Len(history)].role # "user"
      THEN /\ abortController' = 0
           /\ req' = [req EXCEPT ![r] = [g EXCEPT !.pc = "done", !.outcome = "error",
                                                   !.log = Append(@, "returned")]]
           /\ UNCHANGED <<messages, chatStorage, aborted>>
    ELSE IF abortController \in aborted
      THEN /\ abortController' = 0
           /\ req' = [req EXCEPT ![r] = [g EXCEPT !.pc = "done", !.outcome = "aborted",
                                                   !.log = Append(@, "returned")]]
           /\ UNCHANGED <<messages, chatStorage, aborted>>
    ELSE /\ req' = [req EXCEPT ![r] = [g EXCEPT !.pc = "fetch",
                                                 !.signal = abortController]]
         /\ UNCHANGED <<messages, chatStorage, abortController, aborted>>

\* contextManager.getAllContent(): one readContent per pinned tab, each a
\* script injection unless the tab's url is restricted; without any the call
\* only yields to the microtask queue and the generation call follows.
PinnedContent(r, q) ==
  LET reads == Cardinality({i \in 1..Len(pinnedTabs) : ~isRestrictedURL(pinnedTabs[i].url)})
      p == [q EXCEPT !.log = Append(@, "pinned")]
  IN  IF reads = 0
        THEN Generate(r, [p EXCEPT !.pinnedContent = <<"pinned">>])
        ELSE /\ req' = [req EXCEPT ![r] = [p EXCEPT !.pc = "pinned", !.left = reads]]
             /\ UNCHANGED <<messages, chatStorage, abortController, aborted>>

\* handleChatMessage after the active tab's content: the second check of the
\* signal, then the pinned tabs.
AfterActive(r, q) ==
  IF abortController = 0 THEN Throw(r, q, NullSignal)
  ELSE IF abortController \in aborted THEN Rollback(r, q)
  ELSE PinnedContent(r, q)

\* if (this.abortController) { this.abortController.abort() }: the signals
\* that are aborted afterwards.
\* (mutant: without a controller the stop is kept for the requests to come)
abort_kept(handle, signals) ==
  IF handle # 0 THEN signals \cup {handle} ELSE signals \cup Callers
abort(handle, signals) ==
  IF handle # 0 THEN signals \cup {handle} ELSE signals

\* handleMessage after both loads, the switch.  STOP_GENERATION aborts the
\* controller the handle holds; CLEAR_CHAT starts chatHistory.clear();
\* GET_HISTORY answers at once; PIN_TAB starts handlePinTab, which queries the
\* active tab; CHAT_MESSAGE starts handleChatMessage, which awaits the API
\* key; a type that is not known gives { error: 'Unknown message type' }.
Dispatch(r) ==
  IF req[r].type = "STOP_GENERATION"
    THEN /\ aborted' = abort(abortController, aborted)
         /\ req' = [q \in Callers |->
                      IF q = r THEN [req[q] EXCEPT !.pc = "done", !.outcome = "success"]
                      ELSE IF q = abortController /\ req[q].stoppedAt = "none"
                        THEN [req[q] EXCEPT !.stoppedAt = req[q].pc]
                      ELSE req[q]]
         /\ UNCHANGED <<messages, chatStorage, abortController>>
  ELSE IF req[r].type = "CLEAR_CHAT"
    THEN /\ messages' = <<>>
         /\ chatStorage' = Stored(<<>>)
         /\ req' = [req EXCEPT ![r].pc = "clearChat"]
         /\ UNCHANGED <<abortController, aborted>>
  ELSE IF req[r].type = "GET_HISTORY"
    THEN /\ req' = [req EXCEPT ![r].pc = "done", ![r].outcome = "success"]
         /\ UNCHANGED <<messages, chatStorage, abortController, aborted>>
  ELSE IF req[r].type = "PIN_TAB"
    THEN /\ req' = [req EXCEPT ![r].pc = "pinQuery"]
         /\ UNCHANGED <<messages, chatStorage, abortController, aborted>>
  ELSE IF req[r].type = "UNPIN_TAB"
    THEN /\ req' = [req EXCEPT ![r].pc = "unpin"]
         /\ UNCHANGED <<messages, chatStorage, abortController, aborted>>
  ELSE IF req[r].type = "CHAT_MESSAGE"
    THEN /\ req' = [req EXCEPT ![r].pc = "key"]
         /\ UNCHANGED <<messages, chatStorage, abortController, aborted>>
  ELSE /\ req' = [req EXCEPT ![r].pc = "done", ![r].outcome = "error"]
       /\ UNCHANGED <<messages, chatStorage, abortController, aborted>>

\* handleMessage(request), the call: chatHistory.load() and
\* contextManager.load() issue their storage gets.
Receive(r, type, includeCurrentTab) ==
  /\ req[r].pc = "idle"
  /\ LoadCall(r)
  /\ req' = [req EXCEPT ![r].type = type,
                        ![r].includeCurrentTab = includeCurrentTab,
                        ![r].pc = "chatget",
                        ![r].snapshot = chatStorage,
                        ![r].after = {q \in Callers : req[q].pc = "done"}]
  /\ UNCHANGED <<messages, chatStorage, apiKey, abortController, aborted, fuel, svcVars, readVars>>

\* ChatHistory.load, the callback of the storage get: the stored array, if
\* there is one, replaces the messages.
ChatLoaded(r) ==
  /\ req[r].pc = "chatget"
  /\ messages' = IF req[r].snapshot.isArray THEN req[r].snapshot.history ELSE messages
  /\ req' = [req EXCEPT ![r].pc = "load"]
  /\ UNCHANGED <<pinVars, hostVars, fuel, svcVars, readVars, chatStorage, apiKey, abortController, aborted>>

\* A step of the request's contextManager.load(); when it was the last one
\* both loads are done and the switch runs.
PinLoadStep(r) ==
  /\ req[r].pc = "load"
  /\ LoadGot(r) \/ LoadTab(r) \/ (ld[r].pc = "save" /\ SaveDone(r) /\ UNCHANGED hostVars)
  /\ IF call'[r].ret = "ok"
       THEN Dispatch(r)
       ELSE UNCHANGED <<messages, chatStorage, abortController, aborted, req>>
  /\ UNCHANGED <<apiKey, fuel, svcVars, readVars>>

\* handleChatMessage, the API key arrived: without a key the request ends;
\* with one a new controller is made and the user message is appended and saved.
ChatGotKey(r) ==
  /\ req[r].pc = "key"
  /\ IF ~apiKey
       THEN /\ req' = [req EXCEPT ![r].pc = "done", ![r].outcome = "error"]
            /\ UNCHANGED <<messages, chatStorage, abortController, aborted>>
       ELSE /\ abortController' = r
            /\ messages' = Append(messages, ChatMessage("user", r))
            /\ chatStorage' = Stored(messages')
            /\ req' = [req EXCEPT ![r].pc = "append", ![r].log = Append(@, "append")]
            /\ UNCHANGED aborted
  /\ UNCHANGED <<pinVars, hostVars, fuel, svcVars, readVars, apiKey>>

\* handleChatMessage, the user message is saved: the first check of the
\* signal, then the active tab's content if asked for.
ChatAppended(r) ==
  /\ req[r].pc = "append"
  /\ IF abortController = 0 THEN Throw(r, req[r], NullSignal)
     ELSE IF abortController \in aborted THEN Rollback(r, req[r])
     ELSE IF req[r].includeCurrentTab
       THEN /\ req' = [req EXCEPT ![r].pc = "active", ![r].log = Append(@, "active")]
            /\ UNCHANGED <<messages, chatStorage, abortController, aborted>>
     ELSE PinnedContent(r, req[r])
  /\ UNCHANGED <<pinVars, hostVars, fuel, svcVars, readVars, apiKey>>

\* getActiveTabContent, the tab query answered: a pinned active tab is not
\* read again, another one is read.
ChatActiveQueried(r) ==
  /\ req[r].pc = "active"
  /\ IF isTabPinned(pinnedTabs, ActiveTab)
       THEN AfterActive(r, [req[r] EXCEPT !.activeContext = <<"active">>])
       ELSE /\ req' = [req EXCEPT ![r].pc = "activeRead"]
            /\ UNCHANGED <<messages, chatStorage, abortController, aborted>>
  /\ UNCHANGED <<pinVars, hostVars, fuel, svcVars, readVars, apiKey>>

\* getActiveTabContent, the active tab's content arrived.
ChatActiveRead(r) ==
  /\ req[r].pc = "activeRead"
  /\ AfterActive(r, [req[r] EXCEPT !.activeContext = <<"active">>])
  /\ UNCHANGED <<pinVars, hostVars, fuel, svcVars, readVars, apiKey>>

\* getAllContent, the content of a pinned tab arrived: the next tab is read,
\* or the generation service is called.
ChatPinnedRead(r) ==
  /\ req[r].pc = "pinned"
  /\ IF req[r].left > 1
       THEN /\ req' = [req EXCEPT ![r].left = @ - 1]
            /\ UNCHANGED <<messages, chatStorage, abortController, aborted>>
       ELSE Generate(r, [req[r] EXCEPT !.pinnedContent = <<"pinned">>])
  /\ UNCHANGED <<pinVars, hostVars, fuel, svcVars, readVars, apiKey>>

\* (mutant: the answer of the service is appended whether or not it is a reply)
ChatFetchDone_appendAlways(r, reply) ==
  /\ req[r].pc = "fetch"
  /\ req[r].signal \notin aborted
  /\ messages' = Append(messages, ChatMessage("model", r))
  /\ chatStorage' = Stored(messages')
  /\ req' = [req EXCEPT ![r].pc = "reply", ![r].log = @ \o <<"returned", "reply">>]
  /\ UNCHANGED <<abortController, aborted>>
  /\ UNCHANGED <<pinVars, hostVars, fuel, svcVars, readVars, apiKey>>

\* generateContent, the fetch answered: a reply is appended to the history
\* and saved; an error of the service is handed back.
ChatFetchDone(r, reply) ==
  /\ req[r].pc = "fetch"
  /\ req[r].signal \notin aborted
  /\ IF reply
       THEN /\ messages' = Append(messages, ChatMessage("model", r))
            /\ chatStorage' = Stored(messages')
            /\ req' = [req EXCEPT ![r].pc = "reply",
                                  ![r].log = @ \o <<"returned", "reply">>]
            /\ UNCHANGED <<abortController, aborted>>
       ELSE Return(r, [req[r] EXCEPT !.log = Append(@, "returned")], "error")
  /\ UNCHANGED <<pinVars, hostVars, fuel, svcVars, readVars, apiKey>>

\* generateContent, the fetch was aborted: the service catches the AbortError
\* and returns { aborted: true }, which handleChatMessage hands back.
ChatFetchAborted(r) ==
  /\ req[r].pc = "fetch"
  /\ req[r].signal \in aborted
  /\ Return(r, [req[r] EXCEPT !.log = Append(@, "returned")], "aborted")
  /\ UNCHANGED <<pinVars, hostVars, fuel, svcVars, readVars, apiKey>>

\* handleChatMessage, the model's reply is saved.
ChatReplySaved(r) ==
  /\ req[r].pc = "reply"
  /\ Return(r, req[r], "reply")
  /\ UNCHANGED <<pinVars, hostVars, fuel, svcVars, readVars, apiKey>>

\* handleChatMessage, removeLastMessage is saved: { aborted: true }.
ChatRolledBack(r) ==
  /\ req[r].pc = "rollback"
  /\ Return(r, req[r], "aborted")
  /\ UNCHANGED <<pinVars, hostVars, fuel, svcVars, readVars, apiKey>>

\* handleClearChat, chatHistory.clear() is saved: contextManager.clear().
ClearChatSaved(r) ==
  /\ req[r].pc = "clearChat"
  /\ pinnedTabs' = <<>>
  /\ pinStorage' = save(<<>>)
  /\ req' = [req EXCEPT ![r].pc = "clearPins"]
  /\ UNCHANGED <<call, ld, hostVars, fuel, svcVars, readVars, messages, chatStorage, apiKey,
                 abortController, aborted>>

\* handleClearChat, contextManager.clear() is saved.
ClearPinsSaved(r) ==
  /\ req[r].pc = "clearPins"
  /\ req' = [req EXCEPT ![r].pc = "done", ![r].outcome = "success"]
  /\ UNCHANGED <<pinVars, hostVars, fuel, svcVars, readVars, messages, chatStorage, apiKey,
                 abortController, aborted>>

\* handlePinTab, the tab query answered: without an active tab, or with a
\* restricted one, the pin is refused; addTab is awaited inside a try whose
\* catch turns its error into { success: false, message }.
PinAnswered(r, found, id) ==
  /\ req[r].pc = "pinQuery"
  /\ IF ~found \/ isRestrictedURL(HostUrl(id))
       THEN /\ req' = [req EXCEPT ![r].pc = "done", ![r].outcome = "refused"]
            /\ UNCHANGED pinVars
       ELSE /\ AddTabCall(r, TabContext(id, HostUrl(id), InputTitle(id)))
            /\ req' = [req EXCEPT ![r].pc = IF call'[r].ret = "pending" THEN "pinSave" ELSE "done",
                                  ![r].outcome = IF call'[r].ret = "pending" THEN "none"
                                                 ELSE IF call'[r].ret = "ok" THEN "success"
                                                 ELSE "refused"]
  /\ UNCHANGED <<hostVars, fuel, svcVars, readVars, messages, chatStorage, apiKey,
                 abortController, aborted>>

\* ... with the tab ActiveTab active.
PinQueried(r, found) == PinAnswered(r, found, ActiveTab)

\* handlePinTab, the save of addTab is done.
PinSaved(r) ==
  /\ req[r].pc = "pinSave"
  /\ SaveDone(r)
  /\ req' = [req EXCEPT ![r].pc = "done", ![r].outcome = "success"]
  /\ UNCHANGED <<fuel, svcVars, readVars, messages, chatStorage, apiKey,
                 abortController, aborted>>

\* handleUnpinTab(tabId): removeTab is awaited.  It runs in the task that
\* completed the loads: pc "unpin" is passed before anything else happens.
UnpinRun(r, tabId) ==
  /\ req[r].pc = "unpin"
  /\ RemoveTabCall(r, tabId)
  /\ req' = [req EXCEPT ![r].pc = IF call'[r].ret = "pending" THEN "unpinSave" ELSE "done",
                        ![r].outcome = IF call'[r].ret = "pending" THEN "none" ELSE "success"]
  /\ UNCHANGED <<fuel, svcVars, readVars, messages, chatStorage, apiKey,
                 abortController, aborted>>

\* handleUnpinTab, the save of removeTab is done.
UnpinSaved(r) ==
  /\ req[r].pc = "unpinSave"
  /\ SaveDone(r)
  /\ req' = [req EXCEPT ![r].pc = "done", ![r].outcome = "success"]
  /\ UNCHANGED <<fuel, svcVars, readVars, messages, chatStorage, apiKey,
                 abortController, aborted>>

\* contextManager.load(), the storage get rejects: Promise.all rejects.
LoadFailed(r) ==
  /\ req[r].pc = "load"
  /\ ld[r].pc = "get"
  /\ call' = [call EXCEPT ![r].ret = "error"]
  /\ ld' = [ld EXCEPT ![r] = NoLoad]
  /\ req' = [req EXCEPT ![r] = handleMessageCatch(req[r], StorageError)]
  /\ UNCHANGED <<pinnedTabs, pinStorage, hostVars, fuel, svcVars, readVars, messages,
                 chatStorage, apiKey, abortController, aborted>>

\* getApiKey(), the storage get rejects: handleChatMessage has not entered
\* its try.
KeyFailed(r) ==
  /\ req[r].pc = "key"
  /\ req' = [req EXCEPT ![r] = handleMessageCatch(req[r], StorageError)]
  /\ UNCHANGED <<pinVars, hostVars, fuel, svcVars, readVars, messages, chatStorage, apiKey,
                 abortController, aborted>>

\* getActiveTabContent(), the tab query rejects, inside the try.
ActiveFailed(r) ==
  /\ req[r].pc = "active"
  /\ IF isAbort(QueryError) THEN Rollback(r, req[r]) ELSE Throw(r, req[r], QueryError)
  /\ UNCHANGED <<pinVars, hostVars, fuel, svcVars, readVars, apiKey>>

\* handlePinTab, the tab query rejects, before the try.
PinQueryFailed(r) ==
  /\ req[r].pc = "pinQuery"
  /\ req' = [req EXCEPT ![r] = handleMessageCatch(req[r], QueryError)]
  /\ UNCHANGED <<pinVars, hostVars, fuel, svcVars, readVars, messages, chatStorage, apiKey,
                 abortController, aborted>>

\* ------------------------------------------------------- SpecChat
\* A process woken by the sidebar: every client sends one message
\* (CHAT_MESSAGE, STOP_GENERATION or CLEAR_CHAT) and the handlers interleave
\* at their awaits.  An earlier run may have left a conversation and pinned
\* tabs in storage; tab 3 was closed since.
ChatInit ==
  /\ ReadIdle
  /\ SvcIdle
  /\ messages = <<>>
  /\ chatStorage \in {NoHistory, Stored(<<ChatMessage("user", 0), ChatMessage("model", 0)>>)}
  /\ apiKey \in BOOLEAN
  /\ abortController = 0
  /\ aborted = {}
  /\ req = [r \in Callers |-> NoReq]
  /\ pinnedTabs = <<>>
  /\ pinStorage \in {save(Pinned(ids)) : ids \in {<<>>, <<1>>, <<2, 3>>}}
  /\ legacy = pinStorage
  /\ call = [c \in Callers |-> NoCall]
  /\ ld = [c \in Callers |-> NoLoad]
  /\ openTabs = TabIds \ {3}
  /\ fuel = 0

ChatReceive == \E r \in Callers :
                 \/ \E includeCurrentTab \in BOOLEAN :
                      Receive(r, "CHAT_MESSAGE", includeCurrentTab)
                 \/ Receive(r, "STOP_GENERATION", FALSE)
                 \/ Receive(r, "CLEAR_CHAT", FALSE)
ChatLoad == \E r \in Callers : ChatLoaded(r) \/ PinLoadStep(r)
ChatStep == \E r \in Callers :
              \/ ChatGotKey(r) \/ ChatAppended(r)
              \/ ChatActiveQueried(r) \/ ChatActiveRead(r) \/ ChatPinnedRead(r)
              \/ \E reply \in BOOLEAN : ChatFetchDone(r, reply)
              \/ ChatFetchAborted(r)
              \/ ChatReplySaved(r) \/ ChatRolledBack(r)
ClearStep == \E r \in Callers : ClearChatSaved(r) \/ ClearPinsSaved(r)

ChatNext == ChatReceive \/ ChatLoad \/ ChatStep \/ ClearStep

SpecChat == ChatInit /\ [][ChatNext]_vars

\* ------------------------------------------------------- SpecEvents
\* A process with the tabs 1..k pinned (k = 1..MaxPinned) in storage, and in
\* memory unless it was just restarted; the tabs EventTabs are
\* closed and updated by the host while the sidebar sends one message
\* (STOP_GENERATION or CLEAR_CHAT), whose handleMessage reloads the stores.
MaxPinned == 2
EventTabs == 1..(MaxPinned + 1)

EventsInit ==
  /\ ReadIdle
  /\ SvcIdle
  /\ messages = <<>>
  /\ chatStorage = NoHistory
  /\ apiKey = TRUE
  /\ abortController = 0
  /\ aborted = {}
  /\ req = [r \in Callers |-> NoReq]
  /\ \E k \in 1..MaxPinned :
       /\ pinStorage = save(Pinned(Upto(k)))
       /\ pinnedTabs \in {<<>>, Pinned(Upto(k))}
  /\ legacy = pinStorage
  /\ call = [c \in Slots |-> NoCall]
  /\ ld = [c \in Slots |-> NoLoad]
  /\ openTabs = TabIds
  /\ fuel = 0

EventsClose ==
  \E id \in EventTabs : TabRemove(id) /\ UNCHANGED <<call, ld, pinnedTabs, pinStorage>>
                          /\ UNCHANGED <<fuel, chatVars, readVars, doc, wt, tabStatus, heap, wire>>
EventsRemoved ==
  \E id \in EventTabs : onRemoved(id) /\ UNCHANGED <<fuel, chatVars, readVars, doc, wt, tabStatus, heap, wire>>
EventsRemovedSaved ==
  onRemovedSaved /\ UNCHANGED <<fuel, chatVars, readVars, doc, wt, tabStatus, heap, wire>>
EventsUpdated ==
  \E id \in EventTabs :
    onUpdated(id, Url("https://", 50), "Page")
      /\ UNCHANGED <<fuel, chatVars, readVars, doc, wt, tabStatus, heap, wire>>
EventsUpdatedSaved ==
  onUpdatedSaved /\ UNCHANGED <<fuel, chatVars, readVars, doc, wt, tabStatus, heap, wire>>
EventsReceive ==
  \E type \in {"STOP_GENERATION", "CLEAR_CHAT"} : Receive(1, type, FALSE)
EventsLoad == ChatLoaded(1) \/ PinLoadStep(1)
EventsClear == ClearChatSaved(1) \/ ClearPinsSaved(1)

EventsNext ==
  \/ EventsClose
  \/ EventsRemoved
  \/ EventsRemovedSaved
  \/ EventsUpdated
  \/ EventsUpdatedSaved
  \/ EventsReceive
  \/ EventsLoad
  \/ EventsClear

SpecEvents == EventsInit /\ [][EventsNext]_vars

\* ------------------------------------------------------- SpecMsg
\* The same process, whose clients also send PIN_TAB, GET_HISTORY and a
\* message of no known type, with a host whose storage gets and tab queries
\* may reject.  Six tabs may be pinned already, so that addTab refuses.
MsgTypes ==
  {"CHAT_MESSAGE", "STOP_GENERATION", "CLEAR_CHAT", "PIN_TAB", "GET_HISTORY", "UNKNOWN"}

MsgInit ==
  /\ ReadIdle
  /\ SvcIdle
  /\ messages = <<>>
  /\ chatStorage = NoHistory
  /\ apiKey \in BOOLEAN
  /\ abortController = 0
  /\ aborted = {}
  /\ req = [r \in Callers |-> NoReq]
  /\ pinnedTabs = <<>>
  /\ pinStorage \in {save(Pinned(ids)) : ids \in {<<>>, <<2, 3, 4, 5, 6, 7>>}}
  /\ legacy = pinStorage
  /\ call = [c \in Callers |-> NoCall]
  /\ ld = [c \in Callers |-> NoLoad]
  /\ openTabs = TabIds
  /\ fuel = 0

MsgReceive ==
  \E r \in Callers, type \in MsgTypes, includeCurrentTab \in BOOLEAN :
    /\ includeCurrentTab => type = "CHAT_MESSAGE"
    /\ Receive(r, type, includeCurrentTab)
MsgPin == \E r \in Callers : (\E found \in BOOLEAN : PinQueried(r, found)) \/ PinSaved(r)
MsgFailed ==
  \E r \in Callers : LoadFailed(r) \/ KeyFailed(r) \/ ActiveFailed(r) \/ PinQueryFailed(r)

MsgNext == MsgReceive \/ ChatLoad \/ ChatStep \/ ClearStep \/ MsgPin \/ MsgFailed

SpecMsg == MsgInit /\ [][MsgNext]_vars

\* ------------------------------------------------------- SpecPins
\* A process with k tabs pinned in storage (none, one short of the limit, or
\* the limit), and in memory unless it was just restarted.  Two clients send
\* one message each (PIN_TAB or UNPIN_TAB of a tab of PinsTabs, or
\* CLEAR_CHAT) while the host updates and closes tab 1; handlers and
\* listeners interleave at their awaits.
PinTypes == {"PIN_TAB", "UNPIN_TAB", "CLEAR_CHAT"}
PinsTabs == {1, MAX_PINNED_TABS, MAX_PINNED_TABS + 1}

PinsInit ==
  /\ ReadIdle
  /\ SvcIdle
  /\ messages = <<>>
  /\ chatStorage = NoHistory
  /\ apiKey = TRUE
  /\ abortController = 0
  /\ aborted = {}
  /\ req = [r \in Callers |-> NoReq]
  /\ \E k \in {0, MAX_PINNED_TABS - 1, MAX_PINNED_TABS} :
       /\ pinStorage = save(Pinned(Upto(k)))
       /\ pinnedTabs \in {<<>>, Pinned(Upto(k))}
  /\ legacy = pinStorage
  /\ call = [c \in Slots |-> NoCall]
  /\ ld = [c \in Slots |-> NoLoad]
  /\ openTabs = TabIds
  /\ fuel = 0

\* No handler stands between the end of its loads and its removeTab.
NoUnpinDue == \A r \in Callers : req[r].pc # "unpin"

PinsReceive ==
  /\ NoUnpinDue
  /\ \E r \in Callers, type \in PinTypes : Receive(r, type, FALSE)
PinsLoad == NoUnpinDue /\ \E r \in Callers : ChatLoaded(r) \/ PinLoadStep(r)
PinsPin ==
  /\ NoUnpinDue
  /\ \E r \in Callers : (\E id \in PinsTabs : PinAnswered(r, id \in openTabs, id)) \/ PinSaved(r)
PinsUnpin ==
  \E r \in Callers :
    \/ \E tabId \in PinsTabs : UnpinRun(r, tabId)
    \/ NoUnpinDue /\ UnpinSaved(r)
PinsClear == NoUnpinDue /\ \E r \in Callers : ClearChatSaved(r) \/ ClearPinsSaved(r)
PinsClose ==
  /\ NoUnpinDue
  /\ TabRemove(1) /\ UNCHANGED <<call, ld, pinnedTabs, pinStorage>>
                          /\ UNCHANGED <<fuel, chatVars, readVars, doc, wt, tabStatus, heap, wire>>
PinsRemoved ==
  /\ NoUnpinDue
  /\ \/ onRemoved(1)
     \/ onRemovedSaved
  /\ UNCHANGED <<fuel, chatVars, readVars, doc, wt, tabStatus, heap, wire>>
PinsUpdated ==
  /\ NoUnpinDue
  /\ \/ onUpdated(1, Url("https://", 50), "Page")
     \/ onUpdatedSaved
  /\ UNCHANGED <<fuel, chatVars, readVars, doc, wt, tabStatus, heap, wire>>

PinsNext ==
  \/ PinsReceive
  \/ PinsLoad
  \/ PinsPin
  \/ PinsUnpin
  \/ PinsClear
  \/ PinsClose
  \/ PinsRemoved
  \/ PinsUpdated

SpecPins == PinsInit /\ [][PinsNext]_vars

\* ================================================================ claims
\* Helpers of the properties, written without the operators of the model.
NoDuplicateIds(tabs) ==
  \A i, j \in 1..Len(tabs) : i # j => tabs[i].tabId # tabs[j].tabId
HasId(tabs, tabId) == tabId \in {tabs[i].tabId : i \in 1..Len(tabs)}
ValidUrl(url) ==
  /\ url # EmptyUrl
  /\ url.prefix \notin {"chrome://", "about:", "chrome-extension://", "file://"}
\* list without its k-th element
Without(tabs, k) ==
  [i \in 1..(Len(tabs) - 1) |-> IF i < k THEN tabs[i] ELSE tabs[i + 1]]
\* the persisted record holds exactly the entries of tabs, in order
Persisted(tabs, stored) ==
  /\ Len(stored) = Len(tabs)
  /\ \A i \in 1..Len(tabs) :
       /\ stored[i].id = tabs[i].tabId
       /\ stored[i].url = tabs[i].url
       /\ stored[i].title = tabs[i].title
\* the entries a client hands to addTab
Inputs == UNION {{TabContext(id, url, InputTitle(id)) : url \in InputUrls(id)} : id \in TabIds}

\* ---- C1 (SpecPin)
\* C1: starting from an empty ContextManager, after any sequence of addTab
\* and removeTab calls the pinned list has at most MAX_PINNED_TABS entries
\* and no two entries with the same tabId.
C1_LimitAndUniqueIds ==
  /\ Len(pinnedTabs) <= 6
  /\ NoDuplicateIds(pinnedTabs)

\* An addTab was just rejected at a full list.
C1_Witness ==
  /\ Len(pinnedTabs) = 6
  /\ call[1].op = "addTab"
  /\ call[1].ret = "limit"

\* ---- C3 (SpecRace)
\* C3: concurrent addTab calls never leave more than MAX_PINNED_TABS
\* entries; when the store held MAX_PINNED_TABS - 1 entries and two calls
\* for two new tabIds were made, exactly one pushed its entry, the other was
\* rejected with the limit error, and the store holds MAX_PINNED_TABS entries.
\* (A call that wrote pushed a new tabId; a call rejected with the limit
\* error asked for a new tabId; the store held Len - pushes entries before.)
C3_ConcurrentAddsRespectLimit ==
  LET pushed == {c \in Callers : call[c].op = "addTab" /\ call[c].writes = 1}
      rejected == {c \in Callers : call[c].op = "addTab" /\ call[c].ret = "limit"}
  IN  /\ Len(pinnedTabs) <= 6
      /\ (/\ Cardinality(pushed \cup rejected) = 2
          /\ Len(pinnedTabs) - Cardinality(pushed) = 6 - 1)
         => /\ Cardinality(pushed) = 1
            /\ Cardinality(rejected) = 1
            /\ Len(pinnedTabs) = 6

\* Two calls in flight at once: the first still awaits its save when the
\* second is rejected.
C3_Witness ==
  \E c1, c2 \in Callers :
    /\ c1 # c2
    /\ call[c1].op = "addTab" /\ call[c1].ret = "pending"
    /\ call[c2].op = "addTab" /\ call[c2].ret = "limit"
    /\ Len(pinnedTabs) = 6

C7_AddTabFailures ==
  [][\A tab \in Inputs :
       (call'[1].op = "addTab" /\ AddTabCall(1, tab)) =>
         /\ tab.url = EmptyUrl => call'[1].ret = "invalid"
         /\ tab.url.prefix \in {"chrome://", "about:", "chrome-extension://", "file://"}
              => call'[1].ret = "restricted"
         /\ (ValidUrl(tab.url) /\ Len(pinnedTabs) >= 6 /\ ~HasId(pinnedTabs, tab.tabId))
              => call'[1].ret = "limit"
         /\ call'[1].ret \in {"invalid", "restricted", "limit"}
              => /\ pinnedTabs' = pinnedTabs
                 /\ pinStorage' = pinStorage
                 /\ call'[1].writes = 0]_vars

\* A call with a restricted url was just rejected on a non-empty store.
C7_Witness ==
  /\ call[1].op = "addTab"
  /\ call[1].ret = "restricted"
  /\ Len(pinnedTabs) > 0

\* ---- C10 (SpecPin)
\* C10: removeTab(tabId) removes exactly the entry with that tabId, keeping
\* the other entries (also those with the same url) in their order, and
\* writes the new list once; without such an entry it changes nothing and
\* does not write.
C10_RemoveExactlyOne ==
  [][\A tabId \in TabIds :
       (call'[1].op = "removeTab" /\ RemoveTabCall(1, tabId)) =>
         IF HasId(pinnedTabs, tabId)
           THEN /\ \E k \in 1..Len(pinnedTabs) :
                     /\ pinnedTabs[k].tabId = tabId
                     /\ pinnedTabs' = Without(pinnedTabs, k)
                /\ call'[1].writes = 1
                /\ Persisted(pinnedTabs', pinStorage')
           ELSE /\ pinnedTabs' = pinnedTabs
                /\ pinStorage' = pinStorage
                /\ call'[1].writes = 0]_vars

\* Tab 1 was removed and tab 2, which shows the same url, is still pinned.
C10_Witness ==
  /\ call[1].op = "removeTab" /\ call[1].writes = 1
  /\ HasId(pinnedTabs, 2) /\ ~HasId(pinnedTabs, 1)
  /\ Len(pinnedTabs) >= 2

\* ---- C8 (SpecLoad)
\* C8: load() of N persisted entries of which K refer to tabs the host no
\* longer has yields exactly the N-K surviving entries in their stored order;
\* when K > 0 it writes once, the pruned list, and when K = 0 it does not
\* write; no other step of the load writes.
C8_LoadPrunes ==
  [][IF ld[1].pc \in {"get", "tab"} /\ ld'[1].pc \notin {"get", "tab"}
       THEN LET stored == ld[1].stored
                alive == {i \in 1..Len(stored) : stored[i].id \in openTabs}
                K == Len(stored) - Cardinality(alive)
            IN  /\ stored = pinStorage
                /\ Len(pinnedTabs') = Len(stored) - K
                /\ \A n \in 1..Len(pinnedTabs') :
                     \E i \in alive :
                       /\ Cardinality({j \in alive : j <= i}) = n
                       /\ pinnedTabs'[n].tabId = stored[i].id
                /\ IF K > 0
                     THEN /\ call'[1].writes = 1
                          /\ Persisted(pinnedTabs', pinStorage')
                     ELSE /\ call'[1].writes = 0
                          /\ pinStorage' = pinStorage
       ELSE pinStorage' = pinStorage]_vars

\* A load that pruned an entry and kept at least two, in descending order of
\* id (the order in which they were stored), awaits its one write.
C8_Witness ==
  /\ call[1].op = "load" /\ call[1].writes = 1 /\ ld[1].pc = "save"
  /\ Len(pinnedTabs) >= 2
  /\ pinnedTabs[1].tabId > pinnedTabs[2].tabId
  /\ Len(pinnedTabs) < Len(ld[1].stored)

\* ---- C9 (SpecLegacy)
\* C9 as stated: after any operation completes, load() from whatever list is
\* persisted included, the pinned list has at most MAX_PINNED_TABS entries
\* and no two entries share a tabId.
C9_Original ==
  (\A c \in Callers : Ready(c)) =>
    /\ Len(pinnedTabs) <= 6
    /\ NoDuplicateIds(pinnedTabs)

\* C9 amended: after any operation completes no two entries share a tabId
\* (the persisted list having none), and the pinned list has more than
\* MAX_PINNED_TABS entries only when load() found them persisted: all its
\* entries are then entries of that persisted list.
C9_LimitExceptLegacy ==
  (\A c \in Callers : Ready(c)) =>
    /\ NoDuplicateIds(pinnedTabs)
    /\ Len(pinnedTabs) > 6 =>
         \A i \in 1..Len(pinnedTabs) :
           \E j \in 1..Len(legacy) : legacy[j].id = pinnedTabs[i].tabId

\* After load() of a persisted list longer than the limit, addTab of a new
\* tab was rejected with the limit error.
C9_Witness ==
  /\ Len(pinnedTabs) > 6
  /\ call[1].op = "addTab" /\ call[1].ret = "limit"

\* ---- C2 (SpecChat)
\* C2: a chat request cancelled by STOP_GENERATION at any point after its
\* user message was appended, the generation call in flight included, ends
\* with the outcome { aborted: true } and the history no longer holds its
\* user message.
C2_AbortRollsBack ==
  \A r \in Callers :
    (/\ req[r].type = "CHAT_MESSAGE"
     /\ req[r].pc = "done"
     /\ req[r].stoppedAt \in {"append", "active", "activeRead", "pinned", "fetch"})
    => /\ req[r].outcome = "aborted"
       /\ \A i \in 1..Len(messages) : messages[i] # ChatMessage("user", r)

\* ---- C4 (SpecChat)
\* C4: whenever a chat request invokes the generation service, the history
\* it passes is not empty and ends with the user message of that request.
C4_GenerationHistoryEndsWithUser ==
  \A r \in Callers :
    req[r].invoked =>
      /\ Len(req[r].history) > 0
      /\ req[r].history[Len(req[r].history)] = ChatMessage("user", r)

\* ---- C5 (SpecChat)
\* C5: when STOP_GENERATION is processed while a chat request appends its
\* message, resolves the active tab or resolves the pinned tabs, the
\* generation service is never invoked for that request.
C5_StopBeforeGenerationPreventsIt ==
  \A r \in Callers :
    req[r].stoppedAt \in {"append", "active", "activeRead", "pinned"}
      => ~req[r].invoked

\* ---- C11 (SpecMeta)
\* C11: updateTabMetadata(tabId, url, title) on a pinned tabId changes only
\* the url and the title of that entry (its position, its tabId, the number
\* of entries and every other entry stay) and writes once; on a tabId that
\* is not pinned it changes nothing and does not write.
C11_UpdateOnlyThatEntry ==
  [][\A tabId \in 1..(MaxMeta + 1) : \A url \in MetaUrls : \A title \in MetaTitles :
       (call'[1].op = "updateTabMetadata" /\ UpdateTabMetadataCall(1, tabId, url, title)) =>
         IF HasId(pinnedTabs, tabId)
           THEN /\ Len(pinnedTabs') = Len(pinnedTabs)
                /\ \A i \in 1..Len(pinnedTabs) :
                     /\ pinnedTabs'[i].tabId = pinnedTabs[i].tabId
                     /\ IF pinnedTabs[i].tabId = tabId
                          THEN pinnedTabs'[i].url = url /\ pinnedTabs'[i].title = title
                          ELSE pinnedTabs'[i] = pinnedTabs[i]
                /\ call'[1].writes = 1
                /\ Persisted(pinnedTabs', pinStorage')
           ELSE /\ pinnedTabs' = pinnedTabs
                /\ pinStorage' = pinStorage
                /\ call'[1].writes = 0]_vars

\* The second of three pinned tabs navigated to an internal page; the other
\* two keep the url they were pinned with.
C11_Witness ==
  /\ Len(pinnedTabs) = 3
  /\ call[1].op = "updateTabMetadata" /\ call[1].writes = 1
  /\ pinnedTabs[2].url = Url("chrome://", 0)
  /\ pinnedTabs[1].url = Url("https://", 0)
  /\ pinnedTabs[3].url = Url("https://", 3)

\* ---- C19 (SpecRead)
\* C19: while the url of the entry starts with chrome://, about:,
\* chrome-extension:// or file://, a readContent() of it has returned at once
\* the restricted-content diagnostic for that url and has made no call of
\* the tab service (no getTab, no waitForTabComplete, no executeScript),
\* whatever strategy matches the url and also when the url was set by
\* updateTabMetadata after the tab was pinned.
RestrictedDiagnostic(url) ==
  Text(<<Lit("(Content not accessible for restricted URL)"), Lit(": "), UrlText(url)>>)

C19_RestrictedUrlNotRead ==
  (rc.pc # "idle" /\ Len(pinnedTabs) = 1
     /\ pinnedTabs[1].url.prefix \in {"chrome://", "about:", "chrome-extension://", "file://"})
  => /\ rc.pc = "done"
     /\ rc.calls = <<>>
     /\ rc.part = RestrictedDiagnostic(pinnedTabs[1].url)

\* The pinned tab was updated to a local file that the Google Docs strategy
\* matches, and was read.
C19_Witness ==
  /\ rc.pc = "done"
  /\ call[1].op = "updateTabMetadata"
  /\ pinnedTabs[1].url = Url("file://", 102)
  /\ GoogleDocsStrategy_canHandle(pinnedTabs[1].url)
  /\ rc.part = RestrictedDiagnostic(Url("file://", 102))

\* ---- C20 (SpecRead)
\* C20: for a tab whose url is not restricted, when getTab(tabId) answers
\* with no tab the read returns the not-found diagnostic for the url, and
\* when it answers with a discarded tab (loading or complete) the read
\* returns the discarded diagnostic; in both cases getTab stays the only
\* tab-service call of the read: no waitForTabComplete, no executeScript.
NotFoundDiagnostic(url) ==
  Text(<<Lit("(Tab not found or accessible)"), Lit(": "), UrlText(url)>>)
DiscardedDiagnostic(url) ==
  Text(<<Lit("(Tab is suspended to save memory. Click it to reload content)"),
         Lit(": "), UrlText(url)>>)

C20_MissingOrDiscardedNotRead ==
  [][\A a \in TabAnswers :
       (/\ rc.pc = "getTab"
        /\ rc.url.prefix \notin RestrictedURLs
        /\ ~a.throws
        /\ ~a.found \/ a.discarded
        /\ ReadGetTab(a))
       => /\ rc'.pc = "done"
          /\ rc'.calls = <<"getTab">>
          /\ rc'.part = IF a.found THEN DiscardedDiagnostic(rc.url)
                                   ELSE NotFoundDiagnostic(rc.url)]_vars

\* The Google Docs tab was found discarded.
C20_Witness ==
  /\ rc.pc = "done"
  /\ rc.strategy = "GoogleDocs"
  /\ rc.calls = <<"getTab">>
  /\ rc.part = DiscardedDiagnostic(Url("https://", 102))

\* ---- C16 (SpecRead)
\* C16: every text fragment a read returns has at least one character, and
\* when executeScript answers without error with null, with the empty string
\* or with a string of whitespace only, the fragment is the no-content
\* diagnostic (followed, for the Google Docs strategy, by its debug note).
C16_TextNeverEmpty ==
  [][/\ (rc'.pc = "done" /\ rc'.part.type = "text") => Length(rc'.part.text) > 0
     /\ \A a \in ScriptAnswers(rc.strategy) :
          (/\ rc.pc = "exec"
           /\ ~a.throws
           /\ a.isNull \/ a.content = NoString \/ a.content.len = 0 \/ a.content.ink = 0
           /\ ReadScript(a))
          => /\ rc'.pc = "done"
             /\ rc'.part.type = "text"
             /\ Head(rc'.part.text) = Lit("(No text content found on this page)")]_vars

\* The page was still loading when the wait timed out, and had no text.
C16_Witness ==
  /\ rc.pc = "done"
  /\ rc.strategy = "DefaultWebPage"
  /\ rc.warningPrefix # ""
  /\ rc.calls = <<"getTab", "waitForTabComplete", "executeScript">>
  /\ rc.part = Text(<<Lit("(No text content found on this page)")>>)

\* ---- C18 (SpecRead)
\* C18 as stated: for a tab that getTab found, not discarded and with status
\* complete (so no wait was made), when executeScript answers with a string
\* s longer than MAX_CONTEXT_LENGTH the text of the fragment is exactly the
\* first MAX_CONTEXT_LENGTH characters of s, and when s has a non-whitespace
\* character and is no longer than MAX_CONTEXT_LENGTH the text is s whole.
IsPrefixOf(part, s, n) ==
  /\ part.type = "text"
  /\ Len(part.text) = 1
  /\ part.text[1].lit = ""
  /\ part.text[1].url = EmptyUrl
  /\ part.text[1].of = s
  /\ part.text[1].upto = n
  /\ Length(part.text) = n

C18_Original ==
  [][\A a \in ScriptAnswers(rc.strategy) :
       (/\ rc.pc = "exec"
        /\ rc.calls = <<"getTab", "executeScript">>
        /\ ~a.throws /\ ~a.isNull /\ a.content # NoString
        /\ a.content.len > 250000 \/ a.content.ink > 0
        /\ ReadScript(a))
       => /\ rc'.pc = "done"
          /\ IsPrefixOf(rc'.part, a.content,
                        IF a.content.len > 250000 THEN 250000 ELSE a.content.len)]_vars

\* C18, amended: ... when executeScript answers with a string s that has a
\* non-whitespace character, the text of the fragment is exactly the first
\* MAX_CONTEXT_LENGTH characters of s if s is longer than MAX_CONTEXT_LENGTH,
\* and s whole otherwise.  (A string of whitespace only, of any length, gives
\* the no-content diagnostic.)
C18_TruncationIsPrefix ==
  [][\A a \in ScriptAnswers(rc.strategy) :
       (/\ rc.pc = "exec"
        /\ rc.calls = <<"getTab", "executeScript">>
        /\ ~a.throws /\ ~a.isNull /\ a.content # NoString
        /\ a.content.ink > 0
        /\ ReadScript(a))
       => /\ rc'.pc = "done"
          /\ IsPrefixOf(rc'.part, a.content,
                        IF a.content.len > 250000 THEN 250000 ELSE a.content.len)]_vars

\* A page text one character longer than the limit was cut to the limit.
C18_Witness ==
  /\ rc.pc = "done"
  /\ rc.calls = <<"getTab", "executeScript">>
  /\ rc.part.type = "text"
  /\ Len(rc.part.text) = 1
  /\ rc.part.text[1].of.len = 250001
  /\ rc.part.text[1].upto = 250000

\* ---- C17 (SpecRead)
\* C17: every text fragment a read returns, by any strategy and whether the
\* tab was complete, completed during the wait or the wait timed out, has at
\* most MAX_CONTEXT_LENGTH characters.
C17_LengthAtMostMax ==
  (rc.pc = "done" /\ rc.part.type = "text")
  => Length(rc.part.text) <= MAX_CONTEXT_LENGTH

\* ---- C15 (SpecContent)
\* C15: no readContent() ends by throwing, whatever getTab,
\* waitForTabComplete and executeScript answer or throw, and so no
\* getAllContent() throws: when it returns, every pinned tab has its header
\* followed by a fragment (a text or a file reference), also the tabs whose
\* read failed.
IsFragment(part) ==
  \/ part.type = "text" /\ part.text # <<>>
  \/ part.type = "file_data" /\ part.fileUri # EmptyUrl

C15_ReadNeverThrows ==
  /\ rc.pc # "thrown"
  /\ ga.pc # "thrown"
  /\ rc.pc = "done" => IsFragment(rc.part)
  /\ (ga.op = "getAllContent" /\ ga.pc = "done")
     => /\ Len(ga.parts) = 2 * Len(pinnedTabs)
        /\ \A i \in 1..Len(pinnedTabs) :
             /\ ga.parts[2 * i - 1].type = "text"
             /\ pinnedTabs[i].url \in
                  {ga.parts[2 * i - 1].text[k].url : k \in 1..Len(ga.parts[2 * i - 1].text)}
             /\ IsFragment(ga.parts[2 * i])

\* getTab threw for the first of two pinned tabs and the second was read.
C15_Witness ==
  /\ ga.op = "getAllContent"
  /\ ga.pc = "done"
  /\ Len(pinnedTabs) = 2
  /\ Len(ga.parts) = 4
  /\ ga.parts[2] =
       Text(<<Lit("(Could not extract content from"), Lit(" "),
              UrlText(pinnedTabs[1].url), Lit(": "), Lit("No tab with id"), Lit(")")>>)
  /\ ga.reads[2].calls = <<"getTab", "executeScript">>
  /\ ga.parts[4].text[1].of = String(3, 5, 1)

\* ---- C12 (SpecContent)
\* C12: when getAllContent() returns with n pinned entries, its result has
\* 2n fragments: for the i-th pinned entry, in pin order, fragment 2i-1 is
\* the text header with that entry's title and url and fragment 2i is what
\* the readContent() of that entry returned.
C12_HeaderThenFragmentPerTab ==
  (ga.op = "getAllContent" /\ ga.pc = "done")
  => /\ Len(ga.parts) = 2 * Len(pinnedTabs)
     /\ Len(ga.reads) = Len(pinnedTabs)
     /\ \A i \in 1..Len(pinnedTabs) :
          /\ ga.parts[2 * i - 1] =
               Text(<<Lit("\n\n--- Pinned Tab: "), Lit(pinnedTabs[i].title), Lit(" ("),
                      UrlText(pinnedTabs[i].url), Lit(") ---")>>)
          /\ ga.reads[i].tabId = pinnedTabs[i].tabId
          /\ ga.reads[i].url = pinnedTabs[i].url
          /\ ga.parts[2 * i] = ga.reads[i].part

\* A YouTube tab and a web page were pinned in that order and read: a file
\* reference, then the page text.
C12_Witness ==
  /\ ga.op = "getAllContent"
  /\ ga.pc = "done"
  /\ Len(pinnedTabs) = 2
  /\ pinnedTabs[1].tabId = 3
  /\ pinnedTabs[2].tabId = 1
  /\ Len(ga.parts) = 4
  /\ ga.parts[2] = FileData(Url("https://", 101))
  /\ ga.parts[4] = Text(<<Substring(String(3, 5, 1), 250000)>>)

ExpectedLog(includeCurrentTab) ==
  IF includeCurrentTab
    THEN <<"append", "active", "pinned", "generate", "returned", "reply">>
    ELSE <<"append", "pinned", "generate", "returned", "reply">>

IsPrefix(s, t) == Len(s) <= Len(t) /\ \A i \in 1..Len(s) : s[i] = t[i]

C13_ChatStepsInOrder ==
  \A r \in Callers :
    /\ IsPrefix(req[r].log, ExpectedLog(req[r].includeCurrentTab))
    /\ ~req[r].includeCurrentTab => req[r].activeContext = <<>>
    /\ req[r].invoked
       => /\ \E i \in 1..Len(req[r].log) : req[r].log[i] = "generate"
          /\ req[r].context = IF req[r].includeCurrentTab
                                THEN <<"active", "pinned">> ELSE <<"pinned">>
    /\ req[r].type # "CHAT_MESSAGE" => req[r].log = <<>>

\* A request with includeCurrentTab went through every step and was answered.
C13_Witness ==
  \E r \in Callers :
    /\ req[r].pc = "done"
    /\ req[r].outcome = "reply"
    /\ req[r].includeCurrentTab
    /\ req[r].log = <<"append", "active", "pinned", "generate", "returned", "reply">>
    /\ req[r].context = <<"active", "pinned">>

\* ---- C21 (SpecRead)
\* C21: a tab that getTab found with status loading (and not discarded) is
\* waited for with a timeout of 2000 ms, a tab with another status is not
\* waited for; when the wait completes or times out executeScript is called
\* next; and when executeScript then answers without error, the fragment
\* has no loading warning if the wait completed (or none was made), and is
\* the loading warning followed by the extracted text if the wait timed out.
LoadingMarker == Lit("(Page is still loading...) ")

C21_LoadingIsWaitedFor ==
  [][/\ \A a \in TabAnswers :
          (rc.pc = "getTab" /\ ~a.throws /\ a.found /\ ~a.discarded /\ ReadGetTab(a))
          => IF a.status = "loading"
               THEN /\ rc'.calls = <<"getTab", "waitForTabComplete">>
                    /\ rc'.timeoutMs = 2000
               ELSE /\ rc'.calls = <<"getTab", "executeScript">>
                    /\ rc'.timeoutMs = 0
     /\ \A a \in {"complete", "TimeoutError"} :
          (rc.pc = "wait" /\ ReadWait(a))
          => /\ rc'.pc = "exec"
             /\ rc'.calls = <<"getTab", "waitForTabComplete", "executeScript">>
     /\ \A a \in ScriptAnswers(rc.strategy) :
          (rc.pc = "exec" /\ ~a.throws /\ ReadScript(a))
          => /\ rc'.pc = "done"
             /\ rc'.part.type = "text"
             /\ IF rc.waited = "TimeoutError"
                  THEN rc'.part.text = <<LoadingMarker, Substring(a.content, 250000)>>
                  ELSE \A k \in 1..Len(rc'.part.text) :
                         rc'.part.text[k] # LoadingMarker]_vars

\* ---- C22 (SpecRead)
\* C22: every read of a url that is not restricted has a strategy, the first
\* of video, rich document, default that handles the url: the video
\* strategy for a YouTube watch url (also one that the rich-document
\* strategy handles too), the rich-document strategy for a Google Docs url
\* that is no video url, the default strategy for every other url; the
\* default strategy handles every url, and no read returns the 'no strategy
\* found' text.
C22_FirstStrategyThatHandles ==
  /\ \A url \in NavUrls \cup {EmptyUrl} : DefaultWebPageStrategy_canHandle(url)
  /\ (rc.pc # "idle" /\ rc.url.prefix \notin RestrictedURLs)
     => /\ rc.strategy =
             IF rc.url.rest \in {101, 103} THEN "YouTube"
             ELSE IF rc.url.rest = 102 THEN "GoogleDocs"
             ELSE "DefaultWebPage"
        /\ \A s \in {"YouTube", "GoogleDocs", "DefaultWebPage"} :
             (canHandle(s, rc.url) /\ s # rc.strategy)
             => /\ canHandle(rc.strategy, rc.url)
                /\ \/ rc.strategy = "YouTube"
                   \/ rc.strategy = "GoogleDocs" /\ s = "DefaultWebPage"
  /\ rc.pc = "done"
     => \A k \in 1..Len(rc.part.text) :
          rc.part.text[k] # Lit(" No strategy found for ")

\* A YouTube watch url that the Google Docs expression matches as well was
\* read by the video strategy.
C22_Witness ==
  /\ rc.pc = "done"
  /\ rc.url = Url("https://", 103)
  /\ GoogleDocsStrategy_canHandle(rc.url)
  /\ rc.strategy = "YouTube"
  /\ rc.part = FileData(Url("https://", 103))

\* ---- C23 (SpecContent)
\* C23: every read of a url that the video strategy handles (and that is
\* not restricted) has returned, when readContent() was called, the file
\* reference whose uri is that url unchanged, and has made no tab-service
\* call (no getTab, no waitForTabComplete, no executeScript): the state of
\* the tab is never asked for.
C23_VideoUrlIsReferenced ==
  /\ (rc.pc # "idle" /\ rc.url.rest \in {101, 103}
        /\ rc.url.prefix \notin {"chrome://", "about:", "chrome-extension://", "file://"})
     => /\ rc.pc = "done"
        /\ rc.calls = <<>>
        /\ rc.part = [type |-> "file_data", text |-> <<>>, mimeType |-> "video/mp4",
                     fileUri |-> rc.url]
  /\ \A i \in 1..Len(ga.reads) :
       (ga.reads[i].url.rest \in {101, 103}
          /\ ga.reads[i].url.prefix \notin {"chrome://", "about:", "chrome-extension://", "file://"})
       => /\ ga.reads[i].calls = <<>>
          /\ ga.reads[i].part =
               [type |-> "file_data", text |-> <<>>, mimeType |-> "video/mp4",
                fileUri |-> ga.reads[i].url]

\* getAllContent() of a web page and a YouTube tab: the web page was read by
\* a script, the video was referenced without any call.
C23_Witness ==
  /\ ga.op = "getAllContent"
  /\ ga.pc = "done"
  /\ Len(ga.reads) = 2
  /\ ga.reads[1].calls = <<"getTab", "executeScript">>
  /\ ga.reads[2].url = Url("https://", 101)
  /\ ga.reads[2].calls = <<>>
  /\ ga.parts[4] = FileData(Url("https://", 101))

\* ---- C24 (SpecDocs)
\* C24 as stated: the content the page script returns is the texts of all
\* parsed chunks joined in ascending order of their index, and it is the same
\* when the scripts of the page and the items of their chunk arrays appear
\* in the opposite order.
RECURSIVE Reverse(_)
Reverse(seq) == IF seq = <<>> THEN <<>> ELSE Append(Reverse(Tail(seq)), Head(seq))
ReversedPage(scripts) ==
  Reverse([i \in 1..Len(scripts) |->
             Script(scripts[i].kind, Reverse(scripts[i].chunk))])
WithIndex(chunks, v) == SelectSeq(chunks, LAMBDA c : c.index = v)
Ascending(chunks) ==
  \A i, j \in 1..Len(chunks) : i < j => chunks[i].index <= chunks[j].index

C24_Original ==
  (doc.pc = "done" /\ Parsed(doc.scripts) # <<>>)
  => /\ Ascending(doc.chunks)
     /\ \A v \in 0..2 : Len(WithIndex(doc.chunks, v)) = Len(WithIndex(Parsed(doc.scripts), v))
     /\ doc.result = DocsResult(Joined(doc.chunks), "")
     /\ extractContentFn(ReversedPage(doc.scripts)) = doc.result

\* C24, amended: the content the page script returns is the texts of all
\* parsed chunks joined in ascending order of their index, chunks of equal
\* index (an item without position has index 0) in the order of the page;
\* when no two chunks have the same index it is the same for the opposite
\* order of appearance.
C24_JoinedByIndex ==
  (doc.pc = "done" /\ Parsed(doc.scripts) # <<>>)
  => /\ Ascending(doc.chunks)
     /\ \A v \in 0..2 : WithIndex(doc.chunks, v) = WithIndex(Parsed(doc.scripts), v)
     /\ doc.result = DocsResult(Joined(doc.chunks), "")
     /\ (\A v \in 0..2 : Len(WithIndex(doc.chunks, v)) <= 1)
        => extractContentFn(ReversedPage(doc.scripts)) = doc.result

\* Chunks with indices 2, 0, 1 and texts c, a, b in two scripts give abc.
C24_Witness ==
  /\ doc.pc = "done"
  /\ doc.scripts = <<Script("model", <<Item("c", 2), Item("a", 0)>>),
                     Script("model", <<Item("b", 1)>>)>>
  /\ doc.result.content = "abc"

\* ---- C25 (SpecRead)
\* C25: when executeScript throws the ExtensionsSettings policy error, the
\* Google Docs strategy and the default strategy return a text that begins
\* with the blocked-by-policy message, which is none of the messages of the
\* other diagnostics (extraction error, restricted url, tab not found, tab
\* discarded, no content).
OtherDiagnosticMessages ==
  {CONTEXT_MESSAGES.ERROR_PREFIX, CONTEXT_MESSAGES.RESTRICTED_URL,
   CONTEXT_MESSAGES.TAB_NOT_FOUND, CONTEXT_MESSAGES.TAB_DISCARDED,
   CONTEXT_MESSAGES.NO_CONTENT_WARNING}
PolicyThrown(a) == a.throws /\ a.message = PolicyMessage

C25_PolicyDiagnosticIsDistinct ==
  [][\A strategy \in {"GoogleDocs", "DefaultWebPage"} :
       \A a \in ScriptAnswers(strategy) :
         (rc.pc = "exec" /\ rc.strategy = strategy /\ PolicyThrown(a) /\ ReadScript(a))
         => /\ rc'.pc = "done"
            /\ rc'.part.type = "text"
            /\ rc'.part.text # <<>>
            /\ rc'.part.text[1].lit \notin OtherDiagnosticMessages]_vars

\* ---- C29 (SpecWaitFair)
Settled(w) == w.pc \in {"resolved", "rejected"}
WaitOutcome(errors) ==
  /\ wt.pc = "waiting" => wt.timer /\ wt.listener
  /\ wt.completed => wt.pc = "resolved"
  /\ wt.pc = "resolved" => wt.completed
  /\ wt.pc = "rejected" => wt.error \in errors
  /\ (wt.pc = "rejected" /\ wt.error = "Error") => tabStatus[wt.tabId] = "closed"
  /\ Settled(wt) => ~wt.timer /\ ~wt.listener
  /\ wt.pc = "idle" => ~wt.listener
SettlesOnce ==
  [][/\ Settled(wt) => (wt' = wt \/ wt'.pc = "idle")
     /\ wt.pc = "get" => (wt'.pc = "get" \/ Settled(wt') \/ wt'.pc = "waiting")
     /\ wt.pc = "waiting" => (wt' = wt \/ Settled(wt'))
     /\ (wt.pc = "waiting" /\ wt'.pc = "resolved")
          => tabStatus[wt.tabId] # "complete" /\ tabStatus'[wt.tabId] = "complete"
     /\ (wt.pc = "waiting" /\ wt.timer /\ TimerFired)
          => wt'.pc = "rejected" /\ wt'.error = "TimeoutError"]_vars
AlwaysSettles == (wt.pc \in {"get", "waiting"}) ~> Settled(wt)

\* C29 as stated: waitForTabComplete resolves when the tab is already
\* complete or a completion update of the tab arrives before the timeout,
\* and otherwise rejects with TimeoutError when the timeout fires; it settles
\* exactly once, its listener and its timer are removed in both outcomes, and
\* every call settles.
C29_Original == []WaitOutcome({"TimeoutError"}) /\ SettlesOnce /\ AlwaysSettles

\* C29, amended: as stated, with a third outcome: when the tab does not exist
\* at the call, waitForTabComplete rejects at once with the error of
\* chrome.tabs.get, without a timer or a listener.
C29_WaitAlwaysSettles ==
  []WaitOutcome({"TimeoutError", "Error"}) /\ SettlesOnce /\ AlwaysSettles

\* A wait of 2000 ms on a tab that is still loading has timed out.
C29_Witness ==
  /\ wt.pc = "rejected"
  /\ wt.error = "TimeoutError"
  /\ wt.timeoutMs = 2000
  /\ tabStatus[wt.tabId] = "loading"
  /\ ~wt.listener

\* ---- C30 (SpecChat)
\* C30: a STOP_GENERATION request whose handler runs while no chat request is
\* in flight aborts no signal, leaves the controller handle empty, the
\* messages, the persisted history and every other request as they are and
\* answers { success: true }; no step of such a request writes the persisted
\* history; and a chat request gets a new controller whose signal is not
\* aborted, which only a STOP_GENERATION handled while it holds the handle
\* aborts.
ChatInFlight ==
  \E q \in Callers : req[q].type = "CHAT_MESSAGE" /\ req[q].pc \notin {"idle", "done"}

C30_StopWhileIdleIsNoOp ==
  /\ [][\A r \in Callers :
          (req[r].type = "STOP_GENERATION" /\ ~ChatInFlight /\ req'[r] # req[r])
          => /\ chatStorage' = chatStorage
             /\ aborted' = aborted
             /\ abortController = 0 /\ abortController' = 0
             /\ \A q \in Callers \ {r} : req'[q] = req[q]
             /\ req'[r].pc = "done"
                  => /\ messages' = messages
                     /\ req'[r].outcome = "success"]_vars
  /\ [][\A q \in Callers :
          (req[q].pc = "key" /\ req'[q].pc = "append")
          => abortController' = q /\ q \notin aborted']_vars
  /\ [](\A q \in Callers : q \in aborted => req[q].stoppedAt # "none")

\* A chat request that arrived after a STOP_GENERATION was answered while
\* nothing else was in flight got its reply.
C30_Witness ==
  /\ req[1].type = "STOP_GENERATION" /\ req[1].outcome = "success"
  /\ req[1].after = {}
  /\ req[2].type = "CHAT_MESSAGE" /\ req[2].after = {1}
  /\ req[2].outcome = "reply"

\* ---- C26 (SpecEvents)
\* C26: every entry point completes a reload of the stores before it reads or
\* changes them: the switch of a handleMessage request runs when its
\* chatHistory.load() and contextManager.load() are done, and a listener of
\* chrome.tabs (onRemoved, onUpdated) calls isTabPinned, removeTab or
\* updateTabMetadata only after a load() of its own that has returned.
StoreCalls == {"removeTab", "updateTabMetadata", "isTabPinned"}

C26_ReloadBeforeUse ==
  [][/\ \A c \in Callers :
          (req[c].pc \in {"chatget", "load"} /\ req'[c].pc \notin {"chatget", "load"})
          => /\ req[c].pc = "load"
             /\ call'[c].op = "load" /\ call'[c].ret = "ok"
     /\ \A c \in Slots :
          (call'[c] # call[c] /\ call'[c].op \in StoreCalls)
          => call[c].op = "load" /\ call[c].ret = "ok"]_vars

\* ---- C28 (SpecEvents)
\* C28: once the onRemoved listener has run to its end for a tab, the tab is
\* neither in the pinned list nor in the persisted list, and stays out of
\* both (no tab is pinned here), also when a load() of the store is in
\* progress while the tab is closed and the listener runs.
StoredIds == {pinStorage[i].id : i \in 1..Len(pinStorage)}

C28_ClosedTabIsUnpinned ==
  \A id \in ev.handled : ~isTabPinned(pinnedTabs, id) /\ id \notin StoredIds

\* ---- C27 (SpecMsg)
\* C27: handleMessage never rejects.  When the reload of the stores rejects,
\* or an exception leaves a handler (a rejected storage get or tab query, the
\* TypeError of a chat request whose controller handle was cleared), the
\* request is answered { success: false, error } with the message of the
\* exception; an answer is never replaced.  (An abort is answered
\* { aborted: true } by handleChatMessage, and an error of addTab
\* { success: false, message } by handlePinTab: they do not leave the handler.)
Failed(r, message) ==
  /\ req'[r].pc = "done"
  /\ req'[r].outcome = "failure"
  /\ req'[r].error = message

C27_HandleMessageNeverRejects ==
  /\ [](\A r \in Callers :
          /\ req[r].outcome # "rejected"
          /\ req[r].pc = "done" <=> req[r].outcome # "none"
          /\ req[r].outcome = "failure" <=> req[r].error # "")
  /\ [][\A r \in Callers :
          /\ (LoadFailed(r) \/ KeyFailed(r)) => Failed(r, "[object Object]")
          /\ (ActiveFailed(r) \/ PinQueryFailed(r)) => Failed(r, "No current window")
          /\ (/\ \/ req[r].pc \in {"append", "activeRead"}
                 \/ req[r].pc = "pinned" /\ req[r].left = 1
                 \/ req[r].pc = "active" /\ isTabPinned(pinnedTabs, ActiveTab)
              /\ abortController = 0
              /\ req'[r] # req[r])
               => Failed(r, "Cannot read properties of null (reading 'signal')")
          /\ req[r].pc = "done" => req'[r] = req[r]]_vars

\* A chat request whose tab query rejected was answered with the failure
\* result, and a pin request was refused by addTab.
C27_Witness ==
  /\ req[1].type = "CHAT_MESSAGE" /\ req[1].outcome = "failure"
  /\ req[1].error = "No current window"
  /\ req[2].type = "PIN_TAB" /\ req[2].outcome = "refused" /\ call[2].ret = "limit"

\* ---- C40 (SpecChat)
\* C40: while a chat request is in flight, from the making of its
\* AbortController to its return, the controller handle holds the controller
\* of that request, so that a STOP_GENERATION aborts it.
HoldingPcs == {"append", "active", "activeRead", "pinned", "fetch", "reply", "rollback"}

C40_HandleIsOwnUntilReturn ==
  \A r \in Callers : req[r].pc \in HoldingPcs => abortController = r

\* ---- C31 (SpecMsg)
\* C31: a model message is in the history, in memory or persisted, only for a
\* request whose generateContent call returned a reply.  The step in which
\* the service returns an error result, and the step in which a request fails
\* with an exception that is not an abort, append nothing and remove nothing:
\* the messages and the persisted history stay as they are.
ModelMessagesOf(history) ==
  {history[i].text : i \in {j \in 1..Len(history) : history[j].role = "model"}}
Replied(r) == \E i \in 1..Len(req[r].log) : req[r].log[i] = "reply"

C31_ModelMessageOnlyOnReply ==
  /\ [](\A r \in ModelMessagesOf(messages) \cup ModelMessagesOf(chatStorage.history) :
          Replied(r))
  /\ [][\A r \in Callers :
          /\ (req[r].pc = "fetch" /\ ChatFetchDone(r, FALSE))
               => /\ messages' = messages /\ chatStorage' = chatStorage
                  /\ req'[r].outcome = "error"
          /\ (req[r].pc = "fetch" /\ ChatFetchDone(r, TRUE))
               => /\ messages' = Append(messages, ChatMessage("model", r))
                  /\ chatStorage' = Stored(messages')
          /\ (req[r].pc \notin {"fetch", "chatget"} /\ req'[r] # req[r])
               => ModelMessagesOf(messages') \subseteq ModelMessagesOf(messages)
          /\ (req[r].outcome = "none" /\ req'[r].outcome = "failure")
               => messages' = messages /\ chatStorage' = chatStorage]_vars

\* The service answered a chat request with an error, and another one failed
\* with an exception, after their user messages were appended: both messages
\* are in the history and no model message is.
C31_Witness ==
  /\ req[1].type = "CHAT_MESSAGE" /\ req[1].outcome = "error" /\ req[1].invoked
  /\ req[2].type = "CHAT_MESSAGE" /\ req[2].outcome = "failure"
  /\ req[2].error = "No current window"
  /\ messages = <<ChatMessage("user", 1), ChatMessage("user", 2)>>
  /\ chatStorage = Stored(messages)

\* ---- C39 (SpecChat)
\* C39: in the messages of ChatHistory every model message is immediately
\* preceded by a user message.
Alternates(history) ==
  \A i \in 1..Len(history) :
    history[i].role = "model" => (i > 1 /\ history[i - 1].role = "user")

C39_ModelFollowsUser == Alternates(messages)

\* ---- C33 (SpecChat)
\* C33: a ChatHistory.load() that finds a stored value that is not an array
\* leaves the history empty, whatever the messages were before.
C33_NonArrayLoadsAsEmpty ==
  [][\A r \in Callers :
       (req[r].pc = "chatget" /\ ~req[r].snapshot.isArray /\ ChatLoaded(r))
       => messages' = <<>>]_vars

\* ---- C37 (SpecChat)
\* The messages without the one at position i.
WithoutAt(msgs, i) == SubSeq(msgs, 1, i - 1) \o SubSeq(msgs, i + 1, Len(msgs))

\* C37: the step that rolls an aborted chat request back removes the user
\* message this request appended and nothing else.
C37_RollbackRemovesOwnMessage ==
  [][\A r \in Callers :
       (req[r].pc # "rollback" /\ req'[r].pc = "rollback")
       => \E i \in 1..Len(messages) :
            /\ messages[i] = ChatMessage("user", r)
            /\ messages' = WithoutAt(messages, i)]_vars

\* ---- C32 (SpecCopy)
\* C32: nothing the caller does with the array getMessages() returned
\* (push, pop, a write to a message of it) changes the messages of the history.
C32_ReturnedValueIsACopy ==
  [][(CopyPush \/ CopyPop \/ CopyWrite)
       => Deref(heap', heap'.messages) = Deref(heap, heap.messages)]_vars

\* ---- C34 (SpecWire)
\* The position of the last user message of a history, 0 if it has none.
LastUser(history) ==
  LET users == {i \in 1..Len(history) : history[i].role = "user"}
  IN IF users = {} THEN 0 ELSE CHOOSE i \in users : \A j \in users : j <= i

\* A part of the request is a text part or a file-reference part.
IsTextPart(part) == DOMAIN part = {"text"}
IsFilePart(part) ==
  DOMAIN part = {"file_data"} /\ DOMAIN part.file_data = {"mime_type", "file_uri"}

\* C34: in the request sent to the service every history message is one
\* entry with its role, in history order; the entry of the last user message
\* has the context parts, in their order and each a text part or a
\* file-reference part, followed by its own text part; every other entry
\* has its text part alone.  (A request is sent only for a history that
\* ends with a user message, with an API key.)
C34_WireShape ==
  /\ wire.pc = "fetch" =>
       /\ wire.apiKey /\ LastUser(wire.history) = Len(wire.history)
       /\ Len(wire.history) > 0
  /\ wire.pc = "fetch" =>
       LET history == wire.history
           context == wire.context
           sent == wire.contents
           n == Len(context)
       IN /\ Len(sent) = Len(history)
          /\ \A i \in 1..Len(history) :
               /\ sent[i].role = history[i].role
               /\ i # LastUser(history)
                    => sent[i].parts = <<[text |-> history[i].text]>>
               /\ i = LastUser(history)
                    => /\ Len(sent[i].parts) = n + 1
                       /\ sent[i].parts[n + 1] = [text |-> history[i].text]
                       /\ \A k \in 1..n :
                            /\ IsTextPart(sent[i].parts[k]) \/ IsFilePart(sent[i].parts[k])
                            /\ context[k].type = "text"
                                 => sent[i].parts[k] = [text |-> context[k].text]
                            /\ context[k].type # "text"
                                 => /\ IsFilePart(sent[i].parts[k])
                                    /\ sent[i].parts[k].file_data.mime_type = context[k].mimeType
                                    /\ sent[i].parts[k].file_data.file_uri = context[k].fileUri

\* A request for a history with an earlier user message and a reply, with a
\* text part and a file reference as context.
C34_Witness ==
  /\ wire.pc = "fetch"
  /\ Len(wire.history) = 3
  /\ wire.history[1].role = "user" /\ wire.history[2].role = "model"
  /\ Len(wire.context) = 2
  /\ wire.context[1].type = "text" /\ wire.context[2].type = "file_data"
  /\ Len(wire.contents[3].parts) = 3

\* ---- C38 (SpecLoad)
\* C38: when an operation of the pin store has completed and none is in
\* progress, the persisted record has the entries of the in-memory list:
\* the same tabId, url and title, in the same order.
C38_PersistedEqualsMemory ==
  ((\A c \in Callers : call[c].ret # "pending") /\ (\E c \in Callers : call[c].ret = "ok"))
  => pinStorage = save(pinnedTabs)

\* ---- C36 (SpecMsg)
\* C36: once PIN_TAB has answered { success: true } for the active tab, the
\* tab is in the in-memory pinned list and in the persisted list, as long as
\* no request clears the pins (no tab is unpinned or closed in SpecMsg),
\* whatever the other request does.
C36_PinIsNotLost ==
  \A r \in Callers :
    (/\ req[r].type = "PIN_TAB" /\ req[r].pc = "done" /\ req[r].outcome = "success"
     /\ \A q \in Callers : req[q].type # "CLEAR_CHAT")
    => /\ isTabPinned(pinnedTabs, ActiveTab)
       /\ ActiveTab \in StoredIds

\* ---- C35 (SpecPins)
\* The tab ids of a list of TabContext or of TabInfo, and whether they differ.
IdsOf(tabs) == [i \in 1..Len(tabs) |-> tabs[i].tabId]
StoredIdsOf(infos) == [i \in 1..Len(infos) |-> infos[i].id]
Distinct(ids) == \A i, j \in 1..Len(ids) : ids[i] = ids[j] => i = j

\* C35: while requests (PIN_TAB, UNPIN_TAB, CLEAR_CHAT, each reloading the
\* pin store first) and tab listeners interleave, the in-memory pinned list
\* and the persisted list have at most MAX_PINNED_TABS entries and no tabId
\* twice.
C35_LimitAndNoDuplicates ==
  /\ Len(pinnedTabs) <= MAX_PINNED_TABS
  /\ Len(pinStorage) <= MAX_PINNED_TABS
  /\ Distinct(IdsOf(pinnedTabs))
  /\ Distinct(StoredIdsOf(pinStorage))

\* Two PIN_TAB requests handled together have filled the list: one succeeded,
\* the other was refused, and a tab listener has run.
C35_Witness ==
  /\ Len(pinnedTabs) = MAX_PINNED_TABS
  /\ \E r, q \in Callers :
       /\ req[r].type = "PIN_TAB" /\ req[r].pc = "done" /\ req[r].outcome = "success"
       /\ req[q].type = "PIN_TAB" /\ req[q].pc = "done" /\ req[q].outcome = "refused"
       /\ r \notin req[q].after /\ q \notin req[r].after
  /\ call[Listener].op # "none"

====
